---- MODULE Spec2Model ----
(***************************************************************************)
(* Model of the thread service (src/thread_service): the relational store, *)
(* the repository functions, the REST adapter, the gRPC adapter, the       *)
(* identity resolver and the auth endpoints.                               *)
(*                                                                         *)
(* Tables are sequences of rows in commit order; primary keys are fresh    *)
(* values drawn from nextId, the way uuid4 hands out a new key per row.    *)
(***************************************************************************)
EXTENDS Integers, Sequences, FiniteSets, TLC

VARIABLES
    users,                      \* table users
    threads,                    \* table threads
    participants,               \* table participants
    messages,                   \* table messages
    attachments,                \* table message_attachments
    password_reset_tokens,      \* table password_reset_tokens
    email_verification_tokens,  \* table email_verification_tokens
    oauth_accounts,             \* table oauth_accounts
    now,                        \* the database / wall clock
    req,                        \* requests in flight: slot -> position and locals
    last,                       \* the response most recently sent
    pager,                      \* a client walking the pages of list_threads
    nextId,                     \* per table: the next fresh primary key
    calls                       \* the repository calls that have returned or raised

dbVars == <<users, threads, participants, messages, attachments,
            password_reset_tokens, email_verification_tokens, oauth_accounts>>
vars == <<users, threads, participants, messages, attachments,
          password_reset_tokens, email_verification_tokens, oauth_accounts, now, req, last, pager, nextId, calls>>

----------------------------------------------------------------------------
(* Bounds of the model *)

MaxThreads == 2
MaxMessages == 2
MaxClock == 2
MaxSignups == 3
MaxResetTokens == 2
MaxReadMessages == 2

----------------------------------------------------------------------------
(* Small helpers *)

Range(s) == {s[i] : i \in 1..Len(s)}

RECURSIVE SeqSum(_)
SeqSum(s) == IF s = <<>> THEN 0 ELSE Head(s) + SeqSum(Tail(s))

Min(a, b) == IF a < b THEN a ELSE b
Max(a, b) == IF a > b THEN a ELSE b

Procs == {1, 2}
Idle == [pc |-> "idle"]
NoResponse == [adapter |-> "none", op |-> "none", status |-> "none"]
NoPager == [state |-> "off"]

----------------------------------------------------------------------------
(* Enumerations of models.py *)

ThreadStatus == {"open", "paused", "closed"}
ParticipantRole == {"user", "agent", "tool"}
MessageKind == {"text", "rich", "tool_call"}
AttachmentKind == {"file", "image", "link"}

----------------------------------------------------------------------------
(* Attribute maps (custom_metadata): a set of <<key, value>> pairs with     *)
(* one pair per key.                                                       *)

MetaKeys(m) == {p[1] : p \in m}
MetaEmpty == {}
MetaAB == {<<"a", 1>>, <<"b", 2>>}
MetaBC == {<<"b", 3>>, <<"c", 4>>}
MetaMerged == {<<"a", 1>>, <<"b", 3>>, <<"c", 4>>}

----------------------------------------------------------------------------
(* Credentials and the identity resolver (auth.py, middleware.py)          *)

NoCred == [scheme |-> "none", form |-> "none", sig |-> "none", expired |-> FALSE, sub |-> 0]
Bearer(form, sig, expired, sub) ==
    [scheme |-> "bearer", form |-> form, sig |-> sig, expired |-> expired, sub |-> sub]

GhostId == 9     \* a well-formed user id that names no row of users
NoSub == 0       \* the token carries no "sub" claim
BadSub == -1     \* the "sub" claim is not a UUID

TokenFor(u) == Bearer("jwt", "ok", FALSE, u)

\* auth.py decode_access_token: the payload, or None on any JWTError
None == [none |-> TRUE]
decode_unverified(token) == IF token.form = "jwt" THEN [sub |-> token.sub] ELSE None

decode_access_token(token) ==
    IF token.form = "jwt" /\ token.sig = "ok" /\ ~token.expired
    THEN [sub |-> token.sub]
    ELSE None

\* repositories.py get_user_by_id / get_user_by_email
get_user_by_id(user_id) ==
    LET rows == {i \in 1..Len(users) : users[i].id = user_id}
    IN IF rows = {} THEN None ELSE users[CHOOSE i \in rows : TRUE]

get_user_by_email(email) ==
    LET rows == {i \in 1..Len(users) : users[i].email = email}
    IN IF rows = {} THEN None ELSE users[CHOOSE i \in rows : TRUE]

\* The id of the owner whose email this is, 0 when there is none.
OwnerOfEmail(email) ==
    IF \E u \in Range(users) : u.email = email
    THEN (CHOOSE u \in Range(users) : u.email = email).id ELSE 0

\* middleware.py get_current_user (with the HTTPBearer dependency in front):
\* the resolved user, or the HTTP error that ends the request.
get_current_user(credentials) ==
    IF credentials.scheme # "bearer"
    THEN [ok |-> FALSE, status |-> "403", detail |-> "Not authenticated", user_id |-> 0]
    ELSE LET payload == decode_access_token(credentials) IN
         IF payload = None
         THEN [ok |-> FALSE, status |-> "401", detail |-> "Invalid authentication credentials", user_id |-> 0]
         ELSE IF payload.sub = NoSub
         THEN [ok |-> FALSE, status |-> "401", detail |-> "Invalid token payload", user_id |-> 0]
         ELSE IF payload.sub = BadSub
         THEN [ok |-> FALSE, status |-> "401", detail |-> "Invalid user ID in token", user_id |-> 0]
         ELSE IF get_user_by_id(payload.sub) = None
         THEN [ok |-> FALSE, status |-> "401", detail |-> "User not found", user_id |-> 0]
         ELSE [ok |-> TRUE, status |-> "200", detail |-> "", user_id |-> payload.sub]

\* The owner a credential really belongs to (0: nobody), whether or not the
\* adapter looked at it.
Principal(credentials) == get_current_user(credentials).user_id

----------------------------------------------------------------------------
(* Repository layer, thread part (repositories.py)                         *)

NoResultFound == [error |-> "NoResultFound"]

ThreadIds == {threads[i].id : i \in 1..Len(threads)}
ThreadById(thread_id) == threads[CHOOSE i \in 1..Len(threads) : threads[i].id = thread_id]

\* The Thread row create_thread adds (repositories.py 362-369); created_at
\* is the server default now().
ThreadRow(id, payload, user_id) ==
    [id |-> id, user_id |-> user_id, status |-> payload.status,
     custom_metadata |-> payload.metadata, created_at |-> now]

\* A fresh primary key for the i-th child row of a parent row: distinct
\* parents and distinct positions give distinct keys, as uuid4 does.
MaxChildren == 2
ChildId(parent_id, i) == (parent_id - 1) * MaxChildren + i

\* The Participant rows create_thread adds, in payload order (372-380).
ParticipantRows(thread_id, payload) ==
    [i \in 1..Len(payload.participants) |->
        [id |-> ChildId(thread_id, i), thread_id |-> thread_id,
         role |-> payload.participants[i], created_at |-> now]]

\* The Message row append_message adds (489-496).
MessageRow(id, thread_id, payload) ==
    [id |-> id, thread_id |-> thread_id, participant_id |-> payload.participant_id,
     kind |-> payload.kind, created_at |-> now]

\* The MessageAttachment rows append_message adds, in payload order (499-508).
AttachmentRows(message_id, payload) ==
    [i \in 1..Len(payload.attachments) |->
        [id |-> ChildId(message_id, i), message_id |-> message_id,
         kind |-> payload.attachments[i], created_at |-> now]]

\* get_thread: the thread with that id AND that owner, else NoResultFound.
get_thread_nofilter(thread_id, user_id) ==
    LET rows == SelectSeq(threads, LAMBDA t : t.id = thread_id)
    IN IF rows = <<>> THEN NoResultFound ELSE rows[1]

get_thread(thread_id, user_id) ==
    LET rows == SelectSeq(threads, LAMBDA t : t.id = thread_id /\ t.user_id = user_id)
    IN IF rows = <<>> THEN NoResultFound ELSE rows[1]

\* append_message's existence probe (485-487): any thread with that id,
\* whoever owns it.
thread_exists(thread_id) == thread_id \in ThreadIds

----------------------------------------------------------------------------
(* Python call binding: a call that omits a required parameter raises      *)
(* TypeError before the function body runs.                                *)

Required ==
    [create_thread  |-> {"session", "payload", "user_id"},
     list_threads   |-> {"session", "user_id", "limit", "offset", "participant_id",
                         "status", "created_after", "created_before"},
     get_thread     |-> {"session", "thread_id", "user_id"},
     append_message |-> {"session", "thread_id", "payload"}]

Binds(fn, passed) == Required[fn] \subseteq passed

----------------------------------------------------------------------------
(* list_threads (repositories.py 28-44, 390-445)                           *)

\* A filter value of 0 / "any" stands for None (the filter is not applied).
NoFilter == [participant_id |-> 0, status |-> "any", created_after |-> 0, created_before |-> 0]

\* _apply_filters: every supplied filter must hold.
_apply_filters_status_only(t, f) == (f.status # "any") => t.status = f.status

_apply_filters(t, f) ==
    /\ (f.participant_id # 0) =>
          \E i \in 1..Len(participants) :
              participants[i].thread_id = t.id /\ participants[i].id = f.participant_id
    /\ (f.status # "any") => t.status = f.status
    /\ (f.created_after # 0) => t.created_at >= f.created_after
    /\ (f.created_before # 0) => t.created_at <= f.created_before

\* The rows both statements of list_threads range over.
Matching(user_id, f) ==
    {t \in Range(threads) : t.user_id = user_id /\ _apply_filters(t, f)}

\* ORDER BY created_at DESC: every arrangement of the rows with created_at
\* non-increasing.  Rows with equal created_at have no defined relative
\* order, and the database may arrange them differently on each execution.
Orderings(S) ==
    {s \in [1..Cardinality(S) -> S] :
        /\ \A i, j \in 1..Cardinality(S) : i # j => s[i] # s[j]
        /\ \A i, j \in 1..Cardinality(S) : i < j => s[i].created_at >= s[j].created_at}

\* LIMIT limit OFFSET offset
Page(order, limit, offset) ==
    SubSeq(order, offset + 1, Min(offset + limit, Len(order)))

\* The count statement (437-444)
count_threads(user_id, f) == Cardinality(Matching(user_id, f))

----------------------------------------------------------------------------
(* Requests and responses                                                  *)

InitUsers ==
    << [id |-> 1, email |-> "a@x", password_hash |-> <<"bcrypt", "pw0">>, email_verified |-> FALSE],
       [id |-> 2, email |-> "b@x", password_hash |-> <<"bcrypt", "pw0">>, email_verified |-> FALSE] >>

Credentials ==
    { NoCred, TokenFor(1), TokenFor(2), TokenFor(GhostId), Bearer("jwt", "bad", FALSE, 1) }

ThreadPayloads ==
    { [status |-> "open", metadata |-> MetaEmpty, participants |-> << >>],
      [status |-> "paused", metadata |-> MetaAB, participants |-> <<"user", "agent">>] }

MessagePayloads ==
    { [participant_id |-> 0, kind |-> "text", attachments |-> <<"file", "image">>] }

RequestedThreadIds == 1..(MaxThreads + 1)

\* What a finished request told its caller, and what it did on the way:
\* shown = the threads whose content the response carries, mutated = the
\* threads it created or changed, repo = the repository functions it ran
\* after identity resolution, owner_arg = the owner id it passed to them,
\* total = the count a listing reports, updates = the attribute update sent.
Response(adapter, op, cred, thread_id, status, detail, shown, mutated, repo, owner_arg) ==
    [adapter |-> adapter, op |-> op, cred |-> cred, thread_id |-> thread_id,
     status |-> status, detail |-> detail, shown |-> shown, mutated |-> mutated,
     repo |-> repo, owner_arg |-> owner_arg, total |-> 0, updates |-> {}]

\* An HTTP request rejected by the identity resolver.
Unauthenticated(op, cred, thread_id) ==
    LET auth == get_current_user(cred)
    IN Response("rest", op, cred, thread_id, auth.status, auth.detail, {}, {}, << >>, 0)

\* The database effect of create_thread run to completion: the thread row
\* and its participant rows, committed together.
CommitThread(payload, user_id) ==
    /\ threads' = Append(threads, ThreadRow(nextId.thread, payload, user_id))
    /\ participants' = participants \o ParticipantRows(nextId.thread, payload)
    /\ nextId' = [nextId EXCEPT !.thread = @ + 1]

\* The database effect of append_message run to completion.
CommitMessage(thread_id, payload) ==
    /\ messages' = Append(messages, MessageRow(nextId.message, thread_id, payload))
    /\ attachments' = attachments \o AttachmentRows(nextId.message, payload)
    /\ nextId' = [nextId EXCEPT !.message = @ + 1]

----------------------------------------------------------------------------
(* REST adapter (api/rest.py): every route depends on get_current_user      *)

restUnchanged == <<users, password_reset_tokens, email_verification_tokens, oauth_accounts, now, req, pager, calls>>

\* POST /threads
create_thread_endpoint(cred, payload) ==
    LET auth == get_current_user(cred) IN
    /\ IF ~auth.ok
       THEN /\ last' = Unauthenticated("create_thread", cred, 0)
            /\ UNCHANGED <<threads, participants, nextId>>
       ELSE /\ nextId.thread <= MaxThreads
            /\ CommitThread(payload, auth.user_id)
            /\ last' = Response("rest", "create_thread", cred, nextId.thread, "201", "",
                                {nextId.thread}, {nextId.thread}, <<"create_thread">>, auth.user_id)
    /\ UNCHANGED <<messages, attachments>>
    /\ UNCHANGED restUnchanged

\* GET /threads
list_threads_endpoint(cred, limit, offset, f) ==
    LET auth == get_current_user(cred) IN
    /\ IF ~auth.ok
       THEN last' = Unauthenticated("list_threads", cred, 0)
       ELSE \E order \in Orderings(Matching(auth.user_id, f)) :
               last' = [Response("rest", "list_threads", cred, 0, "200", "",
                                 {t.id : t \in Range(Page(order, limit, offset))}, {},
                                 <<"list_threads">>, auth.user_id)
                        EXCEPT !.total = count_threads(auth.user_id, f)]
    /\ UNCHANGED <<threads, participants, messages, attachments, nextId>>
    /\ UNCHANGED restUnchanged

\* GET /threads/{thread_id}
get_thread_endpoint(cred, thread_id) ==
    LET auth == get_current_user(cred) IN
    /\ IF ~auth.ok
       THEN last' = Unauthenticated("get_thread", cred, thread_id)
       ELSE IF get_thread(thread_id, auth.user_id) = NoResultFound
       THEN last' = Response("rest", "get_thread", cred, thread_id, "404", "Thread not found",
                             {}, {}, <<"get_thread">>, auth.user_id)
       ELSE last' = Response("rest", "get_thread", cred, thread_id, "200", "",
                             {get_thread(thread_id, auth.user_id).id}, {},
                             <<"get_thread">>, auth.user_id)
    /\ UNCHANGED <<threads, participants, messages, attachments, nextId>>
    /\ UNCHANGED restUnchanged

\* POST /threads/{thread_id}/messages: ownership is checked with get_thread
\* before append_message runs.
append_message_endpoint(cred, thread_id, payload) ==
    LET auth == get_current_user(cred) IN
    /\ IF ~auth.ok
       THEN /\ last' = Unauthenticated("append_message", cred, thread_id)
            /\ UNCHANGED <<messages, attachments, nextId>>
       ELSE IF get_thread(thread_id, auth.user_id) = NoResultFound
       THEN /\ last' = Response("rest", "append_message", cred, thread_id, "404", "Thread not found",
                                {}, {}, <<"get_thread">>, auth.user_id)
            /\ UNCHANGED <<messages, attachments, nextId>>
       ELSE IF ~thread_exists(thread_id)
       THEN /\ last' = Response("rest", "append_message", cred, thread_id, "404", "Thread not found",
                                {}, {}, <<"get_thread", "append_message">>, auth.user_id)
            /\ UNCHANGED <<messages, attachments, nextId>>
       ELSE /\ nextId.message <= MaxMessages
            /\ CommitMessage(thread_id, payload)
            /\ last' = Response("rest", "append_message", cred, thread_id, "201", "",
                                {thread_id}, {thread_id},
                                <<"get_thread", "append_message">>, auth.user_id)
    /\ UNCHANGED <<threads, participants>>
    /\ UNCHANGED restUnchanged

\* The routes the thread router registers (rest.py 47, 68, 172, 204).
Routes ==
    { <<"POST", "/threads">>, <<"GET", "/threads">>,
      <<"GET", "/threads/{thread_id}">>, <<"POST", "/threads/{thread_id}/messages">> }

\* PATCH /threads/{thread_id} with an attribute update: the path is known
\* to the router but no route accepts the method, so the framework answers
\* 405 and no handler runs.
patch_thread_request(cred, thread_id, updates) ==
    /\ <<"PATCH", "/threads/{thread_id}">> \notin Routes
    /\ last' = [Response("rest", "update_thread_metadata", cred, thread_id, "405",
                         "Method Not Allowed", {}, {}, << >>, 0)
                EXCEPT !.updates = updates]
    /\ UNCHANGED <<threads, participants, messages, attachments, nextId>>
    /\ UNCHANGED restUnchanged

----------------------------------------------------------------------------
(* gRPC adapter (api/grpc.py): no handler reads the caller's credential    *)

\* An exception other than the one the handler catches leaves the servicer
\* and the RPC ends with StatusCode.UNKNOWN.
RpcTypeError(op, cred, thread_id) ==
    Response("grpc", op, cred, thread_id, "UNKNOWN", "TypeError", {}, {}, << >>, 0)

\* CreateThread calls create_thread(session, payload)
CreateThread(cred, payload) ==
    /\ ~Binds("create_thread", {"session", "payload"})
    /\ last' = RpcTypeError("create_thread", cred, 0)
    /\ UNCHANGED <<threads, participants, messages, attachments, nextId>>
    /\ UNCHANGED restUnchanged

\* GetThread calls get_thread(session, thread_id)
GetThread(cred, thread_id) ==
    /\ ~Binds("get_thread", {"session", "thread_id"})
    /\ last' = RpcTypeError("get_thread", cred, thread_id)
    /\ UNCHANGED <<threads, participants, messages, attachments, nextId>>
    /\ UNCHANGED restUnchanged

\* ListThreads calls list_threads without user_id
ListThreads(cred, limit, offset, f) ==
    /\ ~Binds("list_threads", {"session", "limit", "offset", "participant_id", "status",
                               "created_after", "created_before"})
    /\ last' = RpcTypeError("list_threads", cred, 0)
    /\ UNCHANGED <<threads, participants, messages, attachments, nextId>>
    /\ UNCHANGED restUnchanged

\* StreamThreadMessages calls get_thread(session, thread_id)
StreamThreadMessages(cred, thread_id) ==
    /\ ~Binds("get_thread", {"session", "thread_id"})
    /\ last' = RpcTypeError("stream_messages", cred, thread_id)
    /\ UNCHANGED <<threads, participants, messages, attachments, nextId>>
    /\ UNCHANGED restUnchanged

\* AppendMessage calls append_message(session, thread_id=..., payload=...)
\* directly: no identity, no ownership check.
AppendMessage(cred, thread_id, payload) ==
    /\ Binds("append_message", {"session", "thread_id", "payload"})
    /\ IF ~thread_exists(thread_id)
       THEN /\ last' = Response("grpc", "append_message", cred, thread_id, "NOT_FOUND",
                                "Thread not found", {}, {}, <<"append_message">>, 0)
            /\ UNCHANGED <<messages, attachments, nextId>>
       ELSE /\ nextId.message <= MaxMessages
            /\ CommitMessage(thread_id, payload)
            /\ last' = Response("grpc", "append_message", cred, thread_id, "OK", "",
                                {thread_id}, {thread_id}, <<"append_message">>, 0)
    /\ UNCHANGED <<threads, participants>>
    /\ UNCHANGED restUnchanged

----------------------------------------------------------------------------
(* Specification Spec: both adapters serving requests one at a time over   *)
(* a database that holds two owners.                                       *)

ListInputs ==
    { [limit |-> 1, offset |-> o, f |-> NoFilter] : o \in {0, 1} }

Init ==
    /\ users = InitUsers
    /\ threads = << >>
    /\ participants = << >>
    /\ messages = << >>
    /\ attachments = << >>
    /\ password_reset_tokens = << >>
    /\ email_verification_tokens = << >>
    /\ oauth_accounts = << >>
    /\ now = 1
    /\ req = [p \in Procs |-> Idle]
    /\ last = NoResponse
    /\ pager = NoPager
    /\ calls = {}
    /\ nextId = [thread |-> 1, message |-> 1,
                 user |-> 3, token |-> 1, request |-> 1, oauth |-> 1]

Next ==
    \/ \E c \in Credentials, pl \in ThreadPayloads : create_thread_endpoint(c, pl)
    \/ \E c \in Credentials, i \in ListInputs : list_threads_endpoint(c, i.limit, i.offset, i.f)
    \/ \E c \in Credentials, t \in RequestedThreadIds : get_thread_endpoint(c, t)
    \/ \E c \in Credentials, t \in RequestedThreadIds, pl \in MessagePayloads :
          append_message_endpoint(c, t, pl)
    \/ \E c \in Credentials, t \in RequestedThreadIds : patch_thread_request(c, t, MetaBC)
    \/ \E c \in Credentials, pl \in ThreadPayloads : CreateThread(c, pl)
    \/ \E c \in Credentials, t \in RequestedThreadIds : GetThread(c, t)
    \/ \E c \in Credentials, i \in ListInputs : ListThreads(c, i.limit, i.offset, i.f)
    \/ \E c \in Credentials, t \in RequestedThreadIds : StreamThreadMessages(c, t)
    \/ \E c \in Credentials, t \in RequestedThreadIds, pl \in MessagePayloads :
          AppendMessage(c, t, pl)

Spec == Init /\ [][Next]_vars

----------------------------------------------------------------------------
(* Properties of the adapters, checked under Spec                          *)

Answered == last.adapter # "none"
NotFoundStatuses == {"404", "NOT_FOUND"}
ThreadOps == {"get_thread", "append_message", "stream_messages", "update_thread_metadata"}

\* The thread last addressed exists and belongs to somebody else than the caller.
ForeignAttempt ==
    /\ Answered
    /\ last.op \in ThreadOps
    /\ last.thread_id \in ThreadIds
    /\ ThreadById(last.thread_id).user_id # Principal(last.cred)

\* C1: through either adapter, nobody is shown and nobody mutates a thread
\* whose user_id is another owner; every such attempt that a handler serves
\* is answered NotFound, as for a thread id that does not exist.
C1_OwnerIsolation ==
    Answered =>
        /\ \A t \in last.shown \cup last.mutated :
               ThreadById(t).user_id = Principal(last.cred)
        /\ (ForeignAttempt /\ last.repo # << >>) => last.status \in NotFoundStatuses

\* C2: get_thread(T.id, B) raises NoResultFound for every owner B other
\* than T's owner, exactly as for an id that names no thread, and returns T
\* for T's owner; the REST route answers 404 "Thread not found" in both cases.
C2_GetThreadOwnerScoped ==
    /\ \A tid \in RequestedThreadIds, u \in {users[i].id : i \in 1..Len(users)} :
          IF tid \in ThreadIds /\ ThreadById(tid).user_id = u
          THEN get_thread(tid, u) = ThreadById(tid)
          ELSE get_thread(tid, u) = NoResultFound
    /\ (Answered /\ last.adapter = "rest" /\ last.op = "get_thread" /\ Principal(last.cred) # 0) =>
          IF last.thread_id \in ThreadIds
             /\ ThreadById(last.thread_id).user_id = Principal(last.cred)
          THEN last.status = "200" /\ last.shown = {last.thread_id}
          ELSE last.status = "404" /\ last.detail = "Thread not found" /\ last.shown = {}

\* C2 witness: an owner asked the REST adapter for another owner's thread
\* and was answered 404.
C2_Witness ==
    /\ ForeignAttempt
    /\ last.adapter = "rest" /\ last.op = "get_thread"
    /\ Principal(last.cred) # 0
    /\ last.status = "404"

\* C3: every non-public operation resolves the caller first and reaches the
\* repository only with the resolved owner id; a request whose credential is
\* missing or invalid runs no repository function and changes nothing.
C3_IdentityBeforeRepository ==
    Answered =>
        /\ last.repo # << >> =>
               (Principal(last.cred) # 0 /\ last.owner_arg = Principal(last.cred))
        /\ Principal(last.cred) = 0 => (last.repo = << >> /\ last.mutated = {})

\* Shallow merge of an update U into an existing attribute map E.
Merge(E, U) == U \cup {p \in E : p[1] \notin MetaKeys(U)}

\* C10: an attribute update by the owner is a shallow merge: the stored map
\* afterwards is Merge(existing, update), and the request succeeds.
C10_ShallowMergeAvailable ==
    [][ ( /\ last' # last
          /\ last'.op = "update_thread_metadata"
          /\ last'.thread_id \in ThreadIds
          /\ ThreadById(last'.thread_id).user_id = Principal(last'.cred) )
        => ( /\ last'.status = "200"
             /\ \E i \in 1..Len(threads') :
                   /\ threads'[i].id = last'.thread_id
                   /\ threads'[i].custom_metadata =
                          Merge(ThreadById(last'.thread_id).custom_metadata, last'.updates) )
      ]_vars

----------------------------------------------------------------------------
(* Auth endpoints (api/auth.py) as interleaved requests: each await on the  *)
(* session is a step at which another request may run.                     *)

Emails == {"a@x", "b@x"}
Passwords == {"pw1", "pw2"}

\* auth.py hash_password
hash_password(password) == <<"bcrypt", password>>

EmailTokenHours == 24
ResetTokenHours == 1

\* auth.py get_token_expiry
get_token_expiry(hours) == now + hours

Finished(p) == req[p].pc = "done"
Free(p) == req[p].pc \in {"idle", "done"}

\* str() of the exception a commit raises on the unique index of users.email
IntegrityError == "duplicate key value violates unique constraint"

\* main.py global_exception_handler: the exception is logged and the body is
\* "Internal server error: " followed by str(exc), kept here as the fixed
\* text (detail) and the text appended to it (cause).
global_exception_handler(exc) ==
    [status |-> "500", detail |-> "Internal server error: ", cause |-> exc, logged |-> exc]

authUnchanged == <<threads, participants, messages, attachments, oauth_accounts, last, pager, calls>>

\* signup, 72-77: the existence check
signup_check(p, email, password) ==
    /\ Free(p)
    /\ nextId.request <= MaxSignups
    /\ IF get_user_by_email(email) # None
       THEN req' = [req EXCEPT ![p] =
                [pc |-> "done", op |-> "signup", email |-> email, password |-> password,
                 free_at_check |-> FALSE, user_id |-> 0,
                 status |-> "400", detail |-> "Email already registered",
                 cause |-> "", logged |-> ""]]
       ELSE req' = [req EXCEPT ![p] =
                [pc |-> "create_user", op |-> "signup", email |-> email, password |-> password,
                 free_at_check |-> TRUE, user_id |-> 0, status |-> "", detail |-> "",
                 cause |-> "", logged |-> ""]]
    /\ nextId' = [nextId EXCEPT !.request = @ + 1]
    /\ UNCHANGED <<users, password_reset_tokens, email_verification_tokens, oauth_accounts, now>>
    /\ UNCHANGED authUnchanged

\* signup, 80-86: create_user inserts and commits.  users.email is unique
\* (models.py 229): when the email has been taken meanwhile the commit
\* raises IntegrityError, which signup does not catch; the application's
\* exception handler (main.py 35-42) answers 500.
signup_create_user(p) ==
    /\ req[p].pc = "create_user"
    /\ IF get_user_by_email(req[p].email) # None
       THEN /\ LET answer == global_exception_handler(IntegrityError) IN
               req' = [req EXCEPT ![p].pc = "done", ![p].status = answer.status,
                                  ![p].detail = answer.detail,
                                  ![p].cause = answer.cause,
                                  ![p].logged = answer.logged]
            /\ UNCHANGED <<users, nextId>>
       ELSE /\ users' = Append(users,
                   [id |-> nextId.user, email |-> req[p].email,
                    password_hash |-> hash_password(req[p].password),
                    email_verified |-> FALSE])
            /\ nextId' = [nextId EXCEPT !.user = @ + 1]
            /\ req' = [req EXCEPT ![p].pc = "create_token", ![p].user_id = nextId.user]
    /\ UNCHANGED <<password_reset_tokens, email_verification_tokens, oauth_accounts, now>>
    /\ UNCHANGED authUnchanged

\* signup, 89-111: the verification token is stored, the mail is sent (a
\* failure to send is swallowed) and the bearer credential is returned.
signup_finish(p) ==
    /\ req[p].pc = "create_token"
    /\ email_verification_tokens' = Append(email_verification_tokens,
           [user_id |-> req[p].user_id, token |-> nextId.token,
            expires_at |-> get_token_expiry(EmailTokenHours)])
    /\ nextId' = [nextId EXCEPT !.token = @ + 1]
    /\ req' = [req EXCEPT ![p].pc = "done", ![p].status = "201"]
    /\ UNCHANGED <<users, password_reset_tokens, now>>
    /\ UNCHANGED authUnchanged

InitSignup ==
    /\ users = << >>
    /\ threads = << >>
    /\ participants = << >>
    /\ messages = << >>
    /\ attachments = << >>
    /\ password_reset_tokens = << >>
    /\ email_verification_tokens = << >>
    /\ oauth_accounts = << >>
    /\ now = 1
    /\ req = [p \in Procs |-> Idle]
    /\ last = NoResponse
    /\ pager = NoPager
    /\ calls = {}
    /\ nextId = [thread |-> 1, message |-> 1,
                 user |-> 1, token |-> 1, request |-> 1, oauth |-> 1]

NextSignup ==
    \/ \E p \in Procs, e \in Emails, pw \in Passwords : signup_check(p, e, pw)
    \/ \E p \in Procs : signup_create_user(p)
    \/ \E p \in Procs : signup_finish(p)

SpecSignup == InitSignup /\ [][NextSignup]_vars

\* C4: of two signup attempts for the same email that raced (at least one
\* found the email still free), exactly one is answered 201 and creates the
\* owner and the other is answered 400 "Email already registered"; no two
\* owners ever share an email.
C4_ConcurrentSignup ==
    /\ \A p, q \in Procs :
          ( /\ p # q /\ Finished(p) /\ Finished(q)
            /\ req[p].op = "signup" /\ req[q].op = "signup"
            /\ req[p].email = req[q].email
            /\ req[p].free_at_check
            /\ req[p].status = "201" )
          => (req[q].status = "400" /\ req[q].detail = "Email already registered")
    /\ \A p \in Procs :
          (Finished(p) /\ req[p].op = "signup") => req[p].status \in {"201", "400"}
    /\ \A i, j \in 1..Len(users) : users[i].email = users[j].email => i = j

\* C21: a failure that is not NotFound, AlreadyExists, Unauthenticated or
\* InvalidArgument is answered 500 with a generic message: its cause is
\* logged and the text of the exception is not part of the response.
C21_InternalErrorsGeneric ==
    \A p \in Procs :
        (Finished(p) /\ req[p].op = "signup" /\ req[p].status \notin {"201", "400", "401", "404", "422"})
            => (req[p].status = "500" /\ req[p].logged # "" /\ req[p].cause = "")

----------------------------------------------------------------------------
(* The multi-row writes step by step.  A session (db.py 29-36) holds the    *)
(* rows it has flushed in its open transaction; other sessions see only    *)
(* the committed tables.  Leaving the session's context manager without a  *)
(* commit rolls the transaction back.                                      *)

NoPending == [threads |-> << >>, participants |-> << >>, messages |-> << >>, attachments |-> << >>]

\* What a flush inside the open transaction does to the committed table.
FlushAutocommit(table, rows) == table \o rows

FlushVisible(table, rows) == table

\* What closing the session without commit does to the committed table.
RolledBackKeeps(table, pendingRows) == table \o pendingRows

RolledBack(table, pendingRows) == table

TxOwners == {1}
TxThreadPayloads == {pl \in ThreadPayloads : pl.participants # << >>}
TxPcs == {"ct_flush", "ct_participants", "ct_refresh", "am_flush", "am_attachments", "am_refresh"}
txUnchanged == <<users, password_reset_tokens, email_verification_tokens, oauth_accounts, now, last, pager>>

\* create_thread 362-369: the Thread object is built (its primary key is
\* generated on the client, models.py 342-346) and added
tx_create_thread(p, user_id, payload) ==
    /\ Free(p)
    /\ nextId.thread <= MaxThreads
    /\ req' = [req EXCEPT ![p] =
           [pc |-> "ct_flush", op |-> "create_thread", user_id |-> user_id, payload |-> payload,
            thread_id |-> nextId.thread, message_id |-> 0, k |-> 0, pending |-> NoPending]]
    /\ nextId' = [nextId EXCEPT !.thread = @ + 1]
    /\ UNCHANGED <<threads, participants, messages, attachments, calls>>
    /\ UNCHANGED txUnchanged

\* create_thread 370: flush inserts the thread row
ct_flush(p) ==
    /\ req[p].pc = "ct_flush"
    /\ LET row == ThreadRow(req[p].thread_id, req[p].payload, req[p].user_id) IN
       /\ threads' = FlushVisible(threads, <<row>>)
       /\ req' = [req EXCEPT ![p].pc = "ct_participants", ![p].pending.threads = <<row>>]
    /\ UNCHANGED <<participants, messages, attachments, calls, nextId>>
    /\ UNCHANGED txUnchanged

\* create_thread 372-380: one participant row is inserted in the transaction
ct_participant(p) ==
    /\ req[p].pc = "ct_participants"
    /\ req[p].k < Len(req[p].payload.participants)
    /\ LET row == ParticipantRows(req[p].thread_id, req[p].payload)[req[p].k + 1] IN
       /\ participants' = FlushVisible(participants, <<row>>)
       /\ req' = [req EXCEPT ![p].k = @ + 1,
                             ![p].pending.participants = Append(@, row)]
    /\ UNCHANGED <<threads, messages, attachments, calls, nextId>>
    /\ UNCHANGED txUnchanged

\* create_thread 382: commit publishes every row of the transaction at once
ct_commit(p) ==
    /\ req[p].pc = "ct_participants"
    /\ req[p].k = Len(req[p].payload.participants)
    /\ threads' = threads \o req[p].pending.threads
    /\ participants' = participants \o req[p].pending.participants
    /\ req' = [req EXCEPT ![p].pc = "ct_refresh", ![p].pending = NoPending]
    /\ UNCHANGED <<messages, attachments, nextId, calls>>
    /\ UNCHANGED txUnchanged

\* create_thread 383-387: refresh reloads the relationships; the call returns
ct_refresh(p) ==
    /\ req[p].pc = "ct_refresh"
    /\ req' = [req EXCEPT ![p] = Idle]
    /\ calls' = calls \cup {[fn |-> "create_thread", id |-> req[p].thread_id,
                             n |-> Len(req[p].payload.participants),
                             outcome |-> "returned", failed_at |-> "", k |-> req[p].k]}
    /\ UNCHANGED <<threads, participants, messages, attachments, nextId>>
    /\ UNCHANGED txUnchanged

\* append_message 485-487: the existence probe
tx_append_message(p, thread_id, payload) ==
    /\ Free(p)
    /\ nextId.message <= MaxMessages
    /\ IF ~thread_exists(thread_id)
       THEN /\ req' = [req EXCEPT ![p] = Idle]
            /\ UNCHANGED nextId
            /\ calls' = calls \cup {[fn |-> "append_message", id |-> 0,
                                     n |-> Len(payload.attachments),
                                     outcome |-> "raised", failed_at |-> "probe", k |-> 0]}
       ELSE /\ req' = [req EXCEPT ![p] =
                   [pc |-> "am_flush", op |-> "append_message", user_id |-> 0, payload |-> payload,
                    thread_id |-> thread_id, message_id |-> nextId.message, k |-> 0,
                    pending |-> NoPending]]
            /\ nextId' = [nextId EXCEPT !.message = @ + 1]
            /\ UNCHANGED calls
    /\ UNCHANGED <<threads, participants, messages, attachments>>
    /\ UNCHANGED txUnchanged

\* append_message 489-497: the message row is flushed
am_flush(p) ==
    /\ req[p].pc = "am_flush"
    /\ LET row == MessageRow(req[p].message_id, req[p].thread_id, req[p].payload) IN
       /\ messages' = FlushVisible(messages, <<row>>)
       /\ req' = [req EXCEPT ![p].pc = "am_attachments", ![p].pending.messages = <<row>>]
    /\ UNCHANGED <<threads, participants, attachments, calls, nextId>>
    /\ UNCHANGED txUnchanged

\* append_message 499-508: one attachment row is inserted in the transaction
am_attachment(p) ==
    /\ req[p].pc = "am_attachments"
    /\ req[p].k < Len(req[p].payload.attachments)
    /\ LET row == AttachmentRows(req[p].message_id, req[p].payload)[req[p].k + 1] IN
       /\ attachments' = FlushVisible(attachments, <<row>>)
       /\ req' = [req EXCEPT ![p].k = @ + 1,
                             ![p].pending.attachments = Append(@, row)]
    /\ UNCHANGED <<threads, participants, messages, calls, nextId>>
    /\ UNCHANGED txUnchanged

\* append_message 510: commit
am_commit(p) ==
    /\ req[p].pc = "am_attachments"
    /\ req[p].k = Len(req[p].payload.attachments)
    /\ messages' = messages \o req[p].pending.messages
    /\ attachments' = attachments \o req[p].pending.attachments
    /\ req' = [req EXCEPT ![p].pc = "am_refresh", ![p].pending = NoPending]
    /\ UNCHANGED <<threads, participants, nextId, calls>>
    /\ UNCHANGED txUnchanged

\* append_message 511-512: refresh; the call returns
am_refresh(p) ==
    /\ req[p].pc = "am_refresh"
    /\ req' = [req EXCEPT ![p] = Idle]
    /\ calls' = calls \cup {[fn |-> "append_message", id |-> req[p].message_id,
                             n |-> Len(req[p].payload.attachments),
                             outcome |-> "returned", failed_at |-> "", k |-> req[p].k]}
    /\ UNCHANGED <<threads, participants, messages, attachments, nextId>>
    /\ UNCHANGED txUnchanged

\* A database error at the statement the request is about to run (insert,
\* commit or refresh): the exception leaves the repository function and the
\* handler and the session is closed without commit.
tx_fail(p) ==
    /\ req[p].pc \in TxPcs
    /\ threads' = RolledBack(threads, req[p].pending.threads)
    /\ participants' = RolledBack(participants, req[p].pending.participants)
    /\ messages' = RolledBack(messages, req[p].pending.messages)
    /\ attachments' = RolledBack(attachments, req[p].pending.attachments)
    /\ req' = [req EXCEPT ![p] = Idle]
    /\ calls' = calls \cup
          {[fn |-> req[p].op,
            id |-> IF req[p].op = "create_thread" THEN req[p].thread_id ELSE req[p].message_id,
            n |-> IF req[p].op = "create_thread" THEN Len(req[p].payload.participants)
                  ELSE Len(req[p].payload.attachments),
            outcome |-> "raised", failed_at |-> req[p].pc, k |-> req[p].k]}
    /\ UNCHANGED nextId
    /\ UNCHANGED txUnchanged

InitTx == Init

NextTx ==
    \/ \E p \in Procs, u \in TxOwners, pl \in TxThreadPayloads : tx_create_thread(p, u, pl)
    \/ \E p \in Procs : ct_flush(p)
    \/ \E p \in Procs : ct_participant(p)
    \/ \E p \in Procs : ct_commit(p)
    \/ \E p \in Procs : ct_refresh(p)
    \/ \E p \in Procs, t \in RequestedThreadIds, pl \in MessagePayloads : tx_append_message(p, t, pl)
    \/ \E p \in Procs : am_flush(p)
    \/ \E p \in Procs : am_attachment(p)
    \/ \E p \in Procs : am_commit(p)
    \/ \E p \in Procs : am_refresh(p)
    \/ \E p \in Procs : tx_fail(p)

SpecTx == InitTx /\ [][NextTx]_vars

----------------------------------------------------------------------------
(* Atomicity of the multi-row writes, checked under SpecTx.  The committed *)
(* tables are what any other session can observe.                          *)

ThreadRowsOf(id) == {i \in 1..Len(threads) : threads[i].id = id}
ParticipantRowsOf(id) == {i \in 1..Len(participants) : participants[i].thread_id = id}
MessageRowsOf(id) == {i \in 1..Len(messages) : messages[i].id = id}
AttachmentRowsOf(id) == {i \in 1..Len(attachments) : attachments[i].message_id = id}

\* Nothing of the call is visible / everything of the call is visible.
NoRowsVisible(fn, id) ==
    IF fn = "create_thread"
    THEN ThreadRowsOf(id) = {} /\ ParticipantRowsOf(id) = {}
    ELSE MessageRowsOf(id) = {} /\ AttachmentRowsOf(id) = {}

AllRowsVisible(fn, id, n) ==
    IF fn = "create_thread"
    THEN Cardinality(ThreadRowsOf(id)) = 1 /\ Cardinality(ParticipantRowsOf(id)) = n
    ELSE Cardinality(MessageRowsOf(id)) = 1 /\ Cardinality(AttachmentRowsOf(id)) = n

InFlight(p, fn) == req[p].pc \in TxPcs /\ req[p].op = fn
BeforeCommit == {"ct_flush", "ct_participants", "am_flush", "am_attachments"}

\* All-or-nothing visibility of one kind of write, in flight and afterwards.
AllOrNothing(fn) ==
    /\ \A c \in calls : (c.fn = fn /\ c.failed_at # "probe") =>
           (NoRowsVisible(fn, c.id) \/ AllRowsVisible(fn, c.id, c.n))
    /\ \A p \in Procs : InFlight(p, fn) =>
           IF req[p].pc \in BeforeCommit
           THEN NoRowsVisible(fn, IF fn = "create_thread" THEN req[p].thread_id ELSE req[p].message_id)
           ELSE AllRowsVisible(fn, IF fn = "create_thread" THEN req[p].thread_id ELSE req[p].message_id,
                               IF fn = "create_thread" THEN Len(req[p].payload.participants)
                               ELSE Len(req[p].payload.attachments))

\* C5 as claimed: a thread created with N participants is visible with all N
\* or not at all, and a create_thread call that failed at any step leaves no
\* thread row and no participant row.
C5_CreateThreadAtomic ==
    /\ AllOrNothing("create_thread")
    /\ \A c \in calls : (c.fn = "create_thread" /\ c.outcome = "raised") =>
           NoRowsVisible("create_thread", c.id)

\* C5 amended: all-or-nothing visibility holds always; a create_thread call
\* that failed before its commit completed leaves no row, and one that
\* failed in the refresh after the commit leaves the thread with all N
\* participants.
C5_CreateThreadAtomicUntilCommit ==
    /\ AllOrNothing("create_thread")
    /\ \A c \in calls : (c.fn = "create_thread" /\ c.outcome = "raised") =>
           IF c.failed_at \in BeforeCommit
           THEN NoRowsVisible("create_thread", c.id)
           ELSE AllRowsVisible("create_thread", c.id, c.n)

\* C5 witness: a create_thread call failed while inserting its second
\* participant, after the thread row and the first participant were flushed.
C5_Witness ==
    \E c \in calls :
        /\ c.fn = "create_thread" /\ c.outcome = "raised"
        /\ c.failed_at = "ct_participants" /\ c.n = 2 /\ c.k = 1

\* C6: an append_message call that fails in the middle of the write (at the
\* message insert, at an attachment insert after the message row was
\* flushed, or at the commit) leaves neither the message nor any attachment
\* visible; before the commit nothing of the call is visible either.
C6_AppendMessageAtomic ==
    /\ AllOrNothing("append_message")
    /\ \A c \in calls :
           (c.fn = "append_message" /\ c.outcome = "raised" /\ c.failed_at \in BeforeCommit) =>
               NoRowsVisible("append_message", c.id)

\* C6 witness: an append_message call failed while inserting its second
\* attachment, after the message row and the first attachment were flushed.
C6_Witness ==
    \E c \in calls :
        /\ c.fn = "append_message" /\ c.outcome = "raised"
        /\ c.failed_at = "am_attachments" /\ c.n = 2 /\ c.k = 1

----------------------------------------------------------------------------
(* Password reset (api/auth.py 269-337, repositories.py 281-343)            *)

\* verify_password_reset_token: the row with that token string whose expiry
\* is still ahead, else None.
verify_password_reset_token(token) ==
    LET rows == SelectSeq(password_reset_tokens,
                          LAMBDA r : r.token = token /\ r.expires_at > now)
    IN IF rows = << >> THEN None ELSE rows[1]

\* delete_password_reset_token: the table without the row of that token.
delete_nothing(table, token) == table

delete_password_reset_token(table, token) ==
    SelectSeq(table, LAMBDA r : r.token # token)

\* update_user_password: the users table with the new hash for that user.
update_user_password(user_id, password_hash) ==
    [i \in 1..Len(users) |->
        IF users[i].id = user_id THEN [users[i] EXCEPT !.password_hash = password_hash]
        ELSE users[i]]

ResetEmails == Emails \cup {"nobody@x"}
RequestedTokens == 1..(MaxResetTokens + 1)
InvalidResetToken == [status |-> "400", detail |-> "Invalid or expired reset token"]
Consumed == {c.id : c \in {d \in calls : d.fn = "reset_password"}}

resetUnchanged == <<threads, participants, messages, attachments,
                    email_verification_tokens, oauth_accounts, last, pager>>

\* forgot_password 295-303: a failure to send the mail is swallowed and the
\* answer is the same whether or not the email is known.
ForgotPasswordAnswerRaising(user, mail_ok) ==
    IF user # None /\ ~mail_ok
    THEN [status |-> "500", detail |-> "Internal server error"]
    ELSE [status |-> "200",
          detail |-> "If the email exists, a password reset link has been sent"]

ForgotPasswordAnswer(user, mail_ok) ==
    [status |-> "200", detail |-> "If the email exists, a password reset link has been sent"]

\* POST /auth/forgot-password: a token is stored and mailed when the email
\* is known; the mail may fail to be sent.
forgot_password(email, mail_ok) ==
    LET user == get_user_by_email(email) IN
    /\ IF user # None
       THEN /\ nextId.token <= MaxResetTokens
            /\ password_reset_tokens' = Append(password_reset_tokens,
                   [user_id |-> user.id, token |-> nextId.token,
                    expires_at |-> get_token_expiry(ResetTokenHours)])
            /\ nextId' = [nextId EXCEPT !.token = @ + 1]
       ELSE UNCHANGED <<password_reset_tokens, nextId>>
    /\ calls' = calls \cup
          {[fn |-> "forgot_password", known |-> OwnerOfEmail(email) # 0,
            mail_failed |-> (OwnerOfEmail(email) # 0 /\ ~mail_ok),
            status |-> ForgotPasswordAnswer(user, mail_ok).status,
            detail |-> ForgotPasswordAnswer(user, mail_ok).detail]}
    /\ UNCHANGED <<users, now, req>>
    /\ UNCHANGED resetUnchanged

\* reset_password 323-328: the token is looked up
rp_verify(p, token, new_password) ==
    /\ Free(p)
    /\ LET reset_token == verify_password_reset_token(token) IN
       IF reset_token = None
       THEN req' = [req EXCEPT ![p] =
                [pc |-> "done", op |-> "reset_password", token |-> token,
                 new_password |-> new_password, user_id |-> 0,
                 after_consumed |-> token \in Consumed, changed |-> FALSE,
                 status |-> InvalidResetToken.status, detail |-> InvalidResetToken.detail]]
       ELSE req' = [req EXCEPT ![p] =
                [pc |-> "rp_update", op |-> "reset_password", token |-> token,
                 new_password |-> new_password, user_id |-> reset_token.user_id,
                 after_consumed |-> token \in Consumed, changed |-> FALSE,
                 status |-> "", detail |-> ""]]
    /\ UNCHANGED <<users, password_reset_tokens, now, nextId, calls>>
    /\ UNCHANGED resetUnchanged

\* reset_password 331-332: the new hash is stored and committed
rp_update(p) ==
    /\ req[p].pc = "rp_update"
    /\ users' = update_user_password(req[p].user_id, hash_password(req[p].new_password))
    /\ req' = [req EXCEPT ![p].pc = "rp_delete", ![p].changed = TRUE]
    /\ UNCHANGED <<password_reset_tokens, now, nextId, calls>>
    /\ UNCHANGED resetUnchanged

\* reset_password 335-337: the used token is deleted; 200
rp_delete(p) ==
    /\ req[p].pc = "rp_delete"
    /\ password_reset_tokens' = delete_password_reset_token(password_reset_tokens, req[p].token)
    /\ req' = [req EXCEPT ![p].pc = "done", ![p].status = "200",
                          ![p].detail = "Password reset successfully"]
    /\ calls' = calls \cup {[fn |-> "reset_password", id |-> req[p].token, n |-> 0,
                             outcome |-> "returned", failed_at |-> "", k |-> 0]}
    /\ UNCHANGED <<users, now, nextId>>
    /\ UNCHANGED resetUnchanged

\* Time passes.
Tick ==
    /\ now < MaxClock
    /\ now' = now + 1
    /\ UNCHANGED <<users, threads, participants, messages, attachments,
                   password_reset_tokens, email_verification_tokens, oauth_accounts,
                   req, last, pager, nextId, calls>>

InitReset == Init

NextReset ==
    \/ \E e \in ResetEmails, mail_ok \in BOOLEAN : forgot_password(e, mail_ok)
    \/ \E p \in Procs, t \in RequestedTokens, pw \in Passwords : rp_verify(p, t, pw)
    \/ \E p \in Procs : rp_update(p)
    \/ \E p \in Procs : rp_delete(p)
    \/ Tick

SpecReset == InitReset /\ [][NextReset]_vars

\* C7: a reset-password attempt made with a token that a successful reset
\* has already consumed is rejected with the answer given for a token that
\* was never issued (400 "Invalid or expired reset token") and does not
\* change the password.
C7_ResetTokenSingleUse ==
    \A p \in Procs :
        (req[p].pc # "idle" /\ req[p].op = "reset_password") =>
            /\ req[p].after_consumed =>
                   /\ req[p].pc = "done"
                   /\ ~req[p].changed
                   /\ [status |-> req[p].status, detail |-> req[p].detail] = InvalidResetToken
            /\ (req[p].token >= nextId.token) =>
                   /\ req[p].pc = "done"
                   /\ [status |-> req[p].status, detail |-> req[p].detail] = InvalidResetToken

\* C7 witness: a token was consumed by a successful reset and a later
\* attempt with the same token has been rejected.
C7_Witness ==
    \E p \in Procs :
        /\ req[p].pc = "done" /\ req[p].op = "reset_password"
        /\ req[p].after_consumed
        /\ req[p].token \in Consumed
        /\ req[p].status = "400"

----------------------------------------------------------------------------
(* Listing (repositories.py 390-445, rest.py 69-96)                          *)

ListProc == 1
ListCredentials == {NoCred, TokenFor(1), TokenFor(2)}
ListLimits == {1, 2}
ListOffsets == {0, 1}
ListFilters ==
    {NoFilter,
     [NoFilter EXCEPT !.status = "paused", !.created_after = 2],
     [NoFilter EXCEPT !.participant_id = ChildId(1, 1), !.created_before = 1]}
PagerFilters == {NoFilter, [NoFilter EXCEPT !.status = "paused"]}

listUnchanged == <<users, threads, participants, messages, attachments,
                   password_reset_tokens, email_verification_tokens, oauth_accounts,
                   now, last, nextId, calls>>

\* list_threads 433-434 behind GET /threads: the page statement runs
lt_page(cred, limit, offset, f) ==
    LET auth == get_current_user(cred) IN
    /\ Free(ListProc)
    /\ pager.state # "on"
    /\ IF ~auth.ok
       THEN req' = [req EXCEPT ![ListProc] =
                [pc |-> "done", op |-> "list_threads", status |-> auth.status,
                 user_id |-> 0, limit |-> limit, offset |-> offset, f |-> f,
                 page |-> << >>, total |-> 0, seen_page |-> 0, seen_count |-> 0]]
       ELSE \E order \in Orderings(Matching(auth.user_id, f)) :
               req' = [req EXCEPT ![ListProc] =
                [pc |-> "lt_count", op |-> "list_threads", status |-> "",
                 user_id |-> auth.user_id, limit |-> limit, offset |-> offset, f |-> f,
                 page |-> [i \in 1..Len(Page(order, limit, offset)) |->
                              Page(order, limit, offset)[i].id],
                 total |-> 0, seen_page |-> nextId.thread, seen_count |-> 0]]
    /\ pager' = NoPager
    /\ UNCHANGED listUnchanged

\* list_threads 436-445: the count statement runs; 200
lt_count ==
    /\ req[ListProc].pc = "lt_count"
    /\ req' = [req EXCEPT ![ListProc].pc = "done", ![ListProc].status = "200",
                          ![ListProc].total = count_threads(req[ListProc].user_id, req[ListProc].f),
                          ![ListProc].seen_count = nextId.thread]
    /\ UNCHANGED pager
    /\ UNCHANGED listUnchanged

\* A client starts reading every page of its list with a fixed limit.
pager_start(cred, limit, f) ==
    /\ Free(ListProc)
    /\ pager.state # "on"
    /\ get_current_user(cred).ok
    /\ pager' = [state |-> "on", cred |-> cred, user_id |-> get_current_user(cred).user_id,
                 limit |-> limit, f |-> f, offset |-> 0, ids |-> << >>, total |-> 0,
                 seen |-> nextId.thread]
    /\ req' = [req EXCEPT ![ListProc] = Idle]
    /\ UNCHANGED listUnchanged

\* The client requests the next page (GET /threads with the next offset)
\* and stops when the offset has reached the reported total.
pager_next ==
    /\ pager.state = "on"
    /\ \E order \in Orderings(Matching(pager.user_id, pager.f)) :
         LET page == Page(order, pager.limit, pager.offset)
             total == count_threads(pager.user_id, pager.f)
         IN pager' = [pager EXCEPT
                 !.ids = @ \o [i \in 1..Len(page) |-> page[i].id],
                 !.total = total,
                 !.offset = @ + pager.limit,
                 !.state = IF pager.offset + pager.limit >= total THEN "finished" ELSE "on"]
    /\ UNCHANGED req
    /\ UNCHANGED listUnchanged

InitList == Init

NextList ==
    \/ \E c \in ListCredentials, pl \in ThreadPayloads : create_thread_endpoint(c, pl)
    \/ \E c \in ListCredentials, l \in ListLimits, o \in ListOffsets, f \in ListFilters :
          lt_page(c, l, o, f)
    \/ lt_count
    \/ \E c \in ListCredentials, l \in ListLimits, f \in PagerFilters : pager_start(c, l, f)
    \/ pager_next
    \/ Tick

SpecList == InitList /\ [][NextList]_vars

\* The owner's threads among the first n-1 created that satisfy every
\* supplied filter.
Satisfying(user_id, f, n) ==
    {t \in Range(threads) :
        /\ t.id < n
        /\ t.user_id = user_id
        /\ f.participant_id # 0 =>
              \E q \in Range(participants) : q.thread_id = t.id /\ q.id = f.participant_id
        /\ f.status # "any" => t.status = f.status
        /\ f.created_after # 0 => t.created_at >= f.created_after
        /\ f.created_before # 0 => t.created_at <= f.created_before}

ListAnswered == req[ListProc].pc = "done" /\ req[ListProc].op = "list_threads"
                    /\ req[ListProc].status = "200"

TotalAndPageFiltered ==
    LET r == req[ListProc] IN
    /\ r.total = Cardinality(Satisfying(r.user_id, r.f, r.seen_count))
    /\ \A i \in 1..Len(r.page) :
           r.page[i] \in {t.id : t \in Satisfying(r.user_id, r.f, r.seen_page)}

PageSizeExact ==
    LET r == req[ListProc] IN Len(r.page) = Min(r.limit, Max(0, r.total - r.offset))

\* C8: when a client reads all pages of an owner's list with a fixed limit
\* and fixed filters and no thread is written meanwhile, the concatenated
\* pages hold exactly `total` thread ids, none repeated and none missing,
\* also when threads share a creation timestamp.
C8_PaginationStable ==
    (pager.state = "finished" /\ pager.seen = nextId.thread) =>
        /\ Len(pager.ids) = pager.total
        /\ \A i, j \in 1..Len(pager.ids) : i # j => pager.ids[i] # pager.ids[j]
        /\ Range(pager.ids) = {t.id : t \in Satisfying(pager.user_id, pager.f, nextId.thread)}

\* C9 as claimed: the total is the number of the owner's threads satisfying
\* all supplied filters, whatever limit and offset are, and the page has
\* exactly min(limit, max(0, total - offset)) threads, all satisfying the
\* filters.
C9_ListTotalAndPage ==
    ListAnswered => (TotalAndPageFiltered /\ PageSizeExact)

\* C9 amended: the total and the filtering of the page hold always; the page
\* size is exact when no thread was committed between the page statement
\* and the count statement.
C9_ListTotalAndPageBetweenWrites ==
    ListAnswered =>
        /\ TotalAndPageFiltered
        /\ (req[ListProc].seen_page = req[ListProc].seen_count) => PageSizeExact

\* C9 witness: an answered list with two filters supplied, a nonzero offset,
\* a thread of the owner that fails a filter and one that passes.
C9_Witness ==
    /\ ListAnswered
    /\ req[ListProc].f.status # "any" /\ req[ListProc].f.created_after # 0
    /\ req[ListProc].offset = 1 /\ req[ListProc].limit = 1
    /\ req[ListProc].total = 1
    /\ req[ListProc].seen_page = req[ListProc].seen_count
    /\ \E t \in Range(threads) :
           t.user_id = req[ListProc].user_id /\ t.status = "paused" /\ t.created_at = 1

----------------------------------------------------------------------------
(* Reading a thread back (repositories.py 448-512, models.py 376-380, 445-448) *)

\* The rows a relationship without order_by loads: the SELECT carries no
\* ORDER BY, so the rows may come in any arrangement.
Arrangements(S) ==
    {s \in [1..Cardinality(S) -> S] :
        \A i, j \in 1..Cardinality(S) : i # j => s[i] # s[j]}

\* Thread.messages, order_by="Message.created_at": created_at non-decreasing;
\* rows with equal created_at in any relative order.
MessagesByCreatedAt(S) ==
    {s \in Arrangements(S) :
        \A i, j \in 1..Cardinality(S) : i < j => s[i].created_at <= s[j].created_at}

AttachmentsOf(message_id) == {a \in Range(attachments) : a.message_id = message_id}
MessagesOf(thread_id) == {m \in Range(messages) : m.thread_id = thread_id}
Ids(s) == [i \in 1..Len(s) |-> s[i].id]

\* Message.attachments as loaded for one message
Loaded(m) == {[id |-> m.id, attachments |-> Ids(a)] : a \in Arrangements(AttachmentsOf(m.id))}

ReadResponse(op, status, thread_id, message_id, atts, msgs) ==
    [adapter |-> "rest", op |-> op, status |-> status, thread_id |-> thread_id,
     message_id |-> message_id, attachments |-> atts, messages |-> msgs]

ReadOwner == 1
readUnchanged == <<users, password_reset_tokens, email_verification_tokens, oauth_accounts, pager, calls>>

\* POST /threads/{thread_id}/messages, first statement: the session's
\* transaction begins with the ownership check; now() of every row the
\* request inserts is the start time of that transaction.
ra_begin(p, thread_id, payload) ==
    /\ Free(p)
    /\ IF get_thread(thread_id, ReadOwner) = NoResultFound
       THEN /\ req' = [req EXCEPT ![p] = Idle]
            /\ last' = ReadResponse("append_message", "404", thread_id, 0, << >>, << >>)
       ELSE /\ req' = [req EXCEPT ![p] = [pc |-> "ra_commit", op |-> "append_message",
                                          thread_id |-> thread_id, payload |-> payload,
                                          stamp |-> now]]
            /\ UNCHANGED last
    /\ UNCHANGED <<threads, participants, messages, attachments, now, nextId>>
    /\ UNCHANGED readUnchanged

\* append_message 489-512: rows inserted and committed, then the message's
\* attachments are loaded for the response
ra_commit(p) ==
    /\ req[p].pc = "ra_commit"
    /\ nextId.message <= MaxReadMessages
    /\ LET id == nextId.message
           row == [MessageRow(id, req[p].thread_id, req[p].payload)
                       EXCEPT !.created_at = req[p].stamp]
           atts == [i \in 1..Len(req[p].payload.attachments) |->
                      [AttachmentRows(id, req[p].payload)[i] EXCEPT !.created_at = req[p].stamp]]
       IN /\ messages' = Append(messages, row)
          /\ attachments' = attachments \o atts
          /\ \E a \in Arrangements(Range(atts)) :
                last' = ReadResponse("append_message", "201", req[p].thread_id, id, Ids(a), << >>)
    /\ nextId' = [nextId EXCEPT !.message = @ + 1]
    /\ req' = [req EXCEPT ![p] = Idle]
    /\ UNCHANGED <<threads, participants, now>>
    /\ UNCHANGED readUnchanged

\* GET /threads/{thread_id}: the thread with its messages and their
\* attachments
rd_get(thread_id) ==
    /\ IF get_thread(thread_id, ReadOwner) = NoResultFound
       THEN last' = ReadResponse("get_thread", "404", thread_id, 0, << >>, << >>)
       ELSE \E order \in MessagesByCreatedAt(MessagesOf(thread_id)) :
            \E s \in [1..Len(order) -> UNION {Loaded(m) : m \in MessagesOf(thread_id)}] :
               /\ \A i \in 1..Len(order) : s[i] \in Loaded(order[i])
               /\ last' = ReadResponse("get_thread", "200", thread_id, 0, << >>, s)
    /\ UNCHANGED <<threads, participants, messages, attachments, now, req, nextId>>
    /\ UNCHANGED readUnchanged

\* StreamThreadMessages (api/grpc.py 199-206): get_thread is called with the
\* session and the thread id only, so the call does not bind and raises
\* TypeError, which the handler's except NoResultFound does not catch; the
\* loop over thread.messages is never reached.
stream_thread_messages(thread_id) ==
    /\ ~Binds("get_thread", {"session", "thread_id"})
    /\ last' = [adapter |-> "grpc", op |-> "stream_messages", status |-> "UNKNOWN",
                thread_id |-> thread_id, yielded |-> << >>,
                existed |-> thread_exists(thread_id),
                had |-> {m.id : m \in MessagesOf(thread_id)}]
    /\ UNCHANGED <<threads, participants, messages, attachments, now, req, nextId>>
    /\ UNCHANGED readUnchanged

InitRead == Init

NextRead ==
    \/ \E t \in RequestedThreadIds : stream_thread_messages(t)
    \/ \E pl \in ThreadPayloads : create_thread_endpoint(TokenFor(ReadOwner), pl)
    \/ \E p \in Procs, t \in RequestedThreadIds, pl \in MessagePayloads : ra_begin(p, t, pl)
    \/ \E p \in Procs : ra_commit(p)
    \/ \E t \in RequestedThreadIds : rd_get(t)
    \/ Tick

SpecRead == InitRead /\ [][NextRead]_vars

\* The attachment ids of a message in the order the attachments were supplied.
SuppliedOrder(message_id) ==
    [i \in 1..Cardinality(AttachmentsOf(message_id)) |-> ChildId(message_id, i)]

\* C11: a message appended with attachments a1, a2 is returned with exactly
\* those two attachments in the order supplied, on the append response and
\* on every later get_thread.
C11_AttachmentOrderKept ==
    /\ (last.op = "append_message" /\ last.status = "201") =>
           /\ Len(last.attachments) = 2
           /\ last.attachments = SuppliedOrder(last.message_id)
    /\ (last.op = "get_thread" /\ last.status = "200") =>
           \A i \in 1..Len(last.messages) :
               /\ Len(last.messages[i].attachments) = 2
               /\ last.messages[i].attachments = SuppliedOrder(last.messages[i].id)

\* C12: get_thread returns all messages of the thread, each with its
\* attachments, in the order the appends completed (message ids are
\* allotted in completion order).
C12_MessagesInAppendOrder ==
    (last.op = "get_thread" /\ last.status = "200") =>
        /\ {last.messages[i].id : i \in 1..Len(last.messages)}
               = {m.id : m \in MessagesOf(last.thread_id)}
        /\ \A i \in 1..Len(last.messages) :
               Range(last.messages[i].attachments)
                   = {a.id : a \in AttachmentsOf(last.messages[i].id)}
        /\ \A i, j \in 1..Len(last.messages) :
               i < j => last.messages[i].id < last.messages[j].id

\* C26: StreamThreadMessages yields exactly the messages the thread had
\* when its query ran, in creation order, and for a thread that does not
\* exist it aborts with NOT_FOUND before yielding anything.
C26_StreamIsSnapshot ==
    (last.adapter = "grpc" /\ last.op = "stream_messages") =>
        IF last.existed
        THEN /\ last.status = "OK"
             /\ Range(last.yielded) = last.had
             /\ \A i, j \in 1..Len(last.yielded) : i < j => last.yielded[i] < last.yielded[j]
        ELSE last.status = "NOT_FOUND" /\ last.yielded = << >>

----------------------------------------------------------------------------
(* Adapter equivalence (api/grpc.py 129-197 against api/rest.py 47-232)      *)

ErrorCategory(status) ==
    IF status \in {"200", "201", "OK"} THEN "ok"
    ELSE IF status \in {"404", "NOT_FOUND"} THEN "not_found"
    ELSE IF status \in {"401", "403", "UNAUTHENTICATED"} THEN "unauthenticated"
    ELSE "internal"

\* The category the REST route answers with for an authenticated owner.
RestCategory(op, cred, thread_id) ==
    IF op \in {"create_thread", "list_threads"} THEN "ok"
    ELSE IF get_thread(thread_id, Principal(cred)) = NoResultFound THEN "not_found"
    ELSE "ok"

AdapterOps == {"create_thread", "list_threads", "get_thread", "append_message"}

\* C13: for an authenticated owner and the same inputs, the gRPC adapter
\* answers create-thread, append-message, get-thread and list-threads with
\* the same result category as the REST adapter (stored on success, the same
\* error category otherwise).
C13_AdaptersEquivalent ==
    (Answered /\ last.adapter = "grpc" /\ last.op \in AdapterOps /\ Principal(last.cred) # 0) =>
        ErrorCategory(last.status) = RestCategory(last.op, last.cred, last.thread_id)

----------------------------------------------------------------------------
(* Wire enums of the gRPC adapter (api/grpc.py 44-120)                       *)

_PB_TO_THREAD_STATUS ==
    ("THREAD_STATUS_OPEN" :> "open") @@ ("THREAD_STATUS_PAUSED" :> "paused")
        @@ ("THREAD_STATUS_CLOSED" :> "closed")
_PB_TO_PARTICIPANT_ROLE ==
    ("PARTICIPANT_ROLE_USER" :> "user") @@ ("PARTICIPANT_ROLE_AGENT" :> "agent")
        @@ ("PARTICIPANT_ROLE_TOOL" :> "tool")
_PB_TO_MESSAGE_KIND ==
    ("MESSAGE_KIND_TEXT" :> "text") @@ ("MESSAGE_KIND_RICH" :> "rich")
        @@ ("MESSAGE_KIND_TOOL_CALL" :> "tool_call")
_PB_TO_ATTACHMENT_KIND ==
    ("ATTACHMENT_KIND_FILE" :> "file") @@ ("ATTACHMENT_KIND_IMAGE" :> "image")
        @@ ("ATTACHMENT_KIND_LINK" :> "link")

\* {v: k for k, v in table.items()}
Inverted(table) ==
    [v \in {table[k] : k \in DOMAIN table} |-> CHOOSE k \in DOMAIN table : table[k] = v]
_THREAD_STATUS_TO_PB == Inverted(_PB_TO_THREAD_STATUS)
_PARTICIPANT_ROLE_TO_PB == Inverted(_PB_TO_PARTICIPANT_ROLE)
_MESSAGE_KIND_TO_PB == Inverted(_PB_TO_MESSAGE_KIND)
_ATTACHMENT_KIND_TO_PB == Inverted(_PB_TO_ATTACHMENT_KIND)

\* dict.get(key, default)
Get(table, key, default) == IF key \in DOMAIN table THEN table[key] ELSE default

\* Wire values a client can send: a mapped one, the zero value of the enum,
\* and a number the table does not know.
WireRoles == {"PARTICIPANT_ROLE_AGENT", "PARTICIPANT_ROLE_UNSPECIFIED"}
WireMessageKinds == {"MESSAGE_KIND_RICH", "MESSAGE_KIND_UNSPECIFIED", "MESSAGE_KIND_99"}
WireAttachmentKinds == {"ATTACHMENT_KIND_IMAGE", "ATTACHMENT_KIND_UNSPECIFIED"}
WireStatuses == {"THREAD_STATUS_PAUSED", "THREAD_STATUS_UNSPECIFIED"}

CreateThreadRequests ==
    {[status |-> st, participants |-> <<r>>] : st \in WireStatuses, r \in WireRoles}
AppendMessageRequests ==
    {[kind |-> k, attachments |-> <<a>>] : k \in WireMessageKinds, a \in WireAttachmentKinds}

\* _attachment_to_proto / _message_to_proto (84-106)
_message_to_proto(message, atts) ==
    [id |-> message.id,
     kind |-> Get(_MESSAGE_KIND_TO_PB, message.kind, "MESSAGE_KIND_UNSPECIFIED"),
     attachments |-> [i \in 1..Len(atts) |->
         Get(_ATTACHMENT_KIND_TO_PB, atts[i].kind, "ATTACHMENT_KIND_UNSPECIFIED")]]

WireResponse(op, status, thread_id, request, payload, stored, reply) ==
    [adapter |-> "grpc", op |-> op, status |-> status, thread_id |-> thread_id,
     request |-> request, payload |-> payload, stored |-> stored, reply |-> reply]

\* CreateThread 129-145: the payload is built from the request (status is
\* not read, roles go through the table), then create_thread is called
\* without user_id.
CreateThreadRpc(request) ==
    LET payload == [status |-> "open", metadata |-> MetaEmpty,
                    participants |-> [i \in 1..Len(request.participants) |->
                        Get(_PB_TO_PARTICIPANT_ROLE, request.participants[i], "user")]]
    IN /\ ~Binds("create_thread", {"session", "payload"})
       /\ last' = WireResponse("create_thread", "UNKNOWN", 0, request, payload, None, None)
       /\ UNCHANGED <<threads, participants, messages, attachments, nextId>>
       /\ UNCHANGED restUnchanged

\* AppendMessage 147-172: kinds go through the tables, the message is
\* appended, the stored row is translated back for the reply.
AppendMessageRpc(thread_id, request) ==
    LET payload == [participant_id |-> 0,
                    kind |-> Get(_PB_TO_MESSAGE_KIND, request.kind, "text"),
                    attachments |-> [i \in 1..Len(request.attachments) |->
                        Get(_PB_TO_ATTACHMENT_KIND, request.attachments[i], "file")]]
    IN /\ Binds("append_message", {"session", "thread_id", "payload"})
       /\ IF ~thread_exists(thread_id)
          THEN /\ last' = WireResponse("append_message", "NOT_FOUND", thread_id, request,
                                       payload, None, None)
               /\ UNCHANGED <<messages, attachments, nextId>>
          ELSE /\ nextId.message <= MaxMessages
               /\ CommitMessage(thread_id, payload)
               /\ last' = WireResponse("append_message", "OK", thread_id, request, payload,
                              MessageRow(nextId.message, thread_id, payload),
                              _message_to_proto(MessageRow(nextId.message, thread_id, payload),
                                                AttachmentRows(nextId.message, payload)))
       /\ UNCHANGED <<threads, participants>>
       /\ UNCHANGED restUnchanged

InitWire == Init

NextWire ==
    \/ \E c \in {TokenFor(1), TokenFor(2)}, pl \in ThreadPayloads : create_thread_endpoint(c, pl)
    \/ \E r \in CreateThreadRequests : CreateThreadRpc(r)
    \/ \E t \in RequestedThreadIds, r \in AppendMessageRequests : AppendMessageRpc(t, r)

SpecWire == InitWire /\ [][NextWire]_vars

\* C14: a wire enum value without an entry in the mapping table becomes the
\* 'unspecified' sentinel in both directions; it is never turned into a
\* normal value (user, text, file) in the payload, the stored row or the
\* reply.
C14_UnmappedEnumIsUnspecified ==
    last.adapter = "grpc" =>
        /\ last.op = "create_thread" =>
               \A i \in 1..Len(last.request.participants) :
                   last.request.participants[i] \notin DOMAIN _PB_TO_PARTICIPANT_ROLE
                       => last.payload.participants[i] = "unspecified"
        /\ (last.op = "append_message" /\ last.status = "OK") =>
               /\ last.request.kind \notin DOMAIN _PB_TO_MESSAGE_KIND =>
                      /\ last.stored.kind = "unspecified"
                      /\ last.reply.kind = "MESSAGE_KIND_UNSPECIFIED"
               /\ \A i \in 1..Len(last.request.attachments) :
                      last.request.attachments[i] \notin DOMAIN _PB_TO_ATTACHMENT_KIND =>
                          /\ last.payload.attachments[i] = "unspecified"
                          /\ last.reply.attachments[i] = "ATTACHMENT_KIND_UNSPECIFIED"

----------------------------------------------------------------------------
(* External identities (api/auth.py 540-581, 592-680; repositories.py        *)
(* 48-78, 156-231).  Every commit is a point where another request may run.  *)

\* get_oauth_account, and the same statement inside create_oauth_account
\* (181-186): the row of that (provider, provider_user_id) pair, else None.
get_oauth_account_none(provider, provider_user_id) == None

get_oauth_account(provider, provider_user_id) ==
    LET rows == SelectSeq(oauth_accounts, LAMBDA a : a.provider = provider
                                                 /\ a.provider_user_id = provider_user_id)
    IN IF rows = << >> THEN None ELSE rows[1]

Providers == {"google"}
ProviderUserIds == {"g1", "g2"}
OAuthEmails == {"a@x", "c@x"}
AccessTokens == {"t1", "t2"}
OAuthUserInfos ==
    {[provider |-> pr, provider_user_id |-> pid, email |-> e] :
        pr \in Providers, pid \in ProviderUserIds, e \in OAuthEmails}
DirectLinkOwner == 1

oauthUnchanged == <<threads, participants, messages, attachments, password_reset_tokens,
                    email_verification_tokens, now, pager>>

OAuthRequest(pc, op, info, user_id, access_token) ==
    [pc |-> pc, op |-> op, info |-> info, user_id |-> user_id, access_token |-> access_token,
     pre_link |-> 0, pre_owner |-> 0, pre_row |-> 0, found |-> 0, row_id |-> 0,
     added_user |-> FALSE, added_link |-> FALSE]

\* What the tables hold when a request looks: the row of a pair (0 when
\* there is none).
RowsOfPair(provider, provider_user_id) ==
    {a \in Range(oauth_accounts) :
        a.provider = provider /\ a.provider_user_id = provider_user_id}
LinkOwner(provider, provider_user_id) ==
    IF RowsOfPair(provider, provider_user_id) = {} THEN 0
    ELSE (CHOOSE a \in RowsOfPair(provider, provider_user_id) : TRUE).user_id
LinkId(provider, provider_user_id) ==
    IF RowsOfPair(provider, provider_user_id) = {} THEN 0
    ELSE (CHOOSE a \in RowsOfPair(provider, provider_user_id) : TRUE).id

\* The answer of a finished request, with what the request did.
OAuthResponse(r, status, detail) ==
    [adapter |-> "rest", op |-> r.op, status |-> status, detail |-> detail, info |-> r.info,
     user_id |-> r.user_id, access_token |-> r.access_token, pre_link |-> r.pre_link,
     pre_owner |-> r.pre_owner, pre_row |-> r.pre_row, found |-> r.found, row_id |-> r.row_id,
     added_user |-> r.added_user, added_link |-> r.added_link]

\* The owner oauth_sync has answered 200 with for a pair that was linked
\* when the call was made.
Answered200(r) ==
    [fn |-> "oauth_sync", provider |-> r.info.provider,
     provider_user_id |-> r.info.provider_user_id, user_id |-> r.user_id]

\* oauth_sync 612-627 / oauth_callback 540-549: the link is looked up; an
\* existing link logs its owner in.
os_lookup(p, info) ==
    LET oauth_account == get_oauth_account(info.provider, info.provider_user_id)
        r == [OAuthRequest("os_email", "oauth_sync", info, 0, None) EXCEPT
                 !.pre_link = LinkOwner(info.provider, info.provider_user_id),
                 !.user_id = IF oauth_account = None THEN 0 ELSE oauth_account.user_id]
    IN /\ req[p].pc = "idle"
       /\ IF oauth_account # None
          THEN /\ last' = OAuthResponse(r, "200", "")
               /\ calls' = calls \cup {Answered200(r)}
               /\ UNCHANGED req
          ELSE /\ req' = [req EXCEPT ![p] = r]
               /\ UNCHANGED <<last, calls>>
       /\ UNCHANGED <<users, oauth_accounts, nextId>>
       /\ UNCHANGED oauthUnchanged

\* 629-631 / 551-553: no link yet; is there an owner with that email?
os_email(p) ==
    LET user == get_user_by_email(req[p].info.email) IN
    /\ req[p].pc = "os_email"
    /\ IF user # None
       THEN req' = [req EXCEPT ![p].pc = "coa_select", ![p].user_id = user.id,
                               ![p].pre_owner = OwnerOfEmail(req[p].info.email)]
       ELSE req' = [req EXCEPT ![p].pc = "os_create_user",
                               ![p].pre_owner = OwnerOfEmail(req[p].info.email)]
    /\ UNCHANGED <<users, oauth_accounts, nextId, calls, last>>
    /\ UNCHANGED oauthUnchanged

\* 641-648 / 563-570: create_user(password_hash=None) inserts and commits.
\* users.email is unique: a commit that loses the race raises, and
\* oauth_sync answers 500 (674-680).
os_create_user(p) ==
    /\ req[p].pc = "os_create_user"
    /\ IF get_user_by_email(req[p].info.email) # None
       THEN /\ last' = OAuthResponse(req[p], "500", "Failed to sync OAuth user")
            /\ req' = [req EXCEPT ![p] = Idle]
            /\ UNCHANGED <<users, nextId>>
       ELSE /\ users' = Append(users, [id |-> nextId.user, email |-> req[p].info.email,
                                        password_hash |-> None, email_verified |-> FALSE])
            /\ nextId' = [nextId EXCEPT !.user = @ + 1]
            /\ req' = [req EXCEPT ![p].pc = "os_verified", ![p].user_id = nextId.user,
                                  ![p].added_user = TRUE]
            /\ UNCHANGED last
    /\ UNCHANGED <<oauth_accounts, calls>>
    /\ UNCHANGED oauthUnchanged

\* 649-651 / 571-572: email_verified is set and committed.
os_verified(p) ==
    /\ req[p].pc = "os_verified"
    /\ users' = [i \in 1..Len(users) |->
                    IF users[i].id = req[p].user_id
                    THEN [users[i] EXCEPT !.email_verified = TRUE] ELSE users[i]]
    /\ req' = [req EXCEPT ![p].pc = "coa_select"]
    /\ UNCHANGED <<oauth_accounts, nextId, calls, last>>
    /\ UNCHANGED oauthUnchanged

\* A direct call of create_oauth_account for an existing owner.
coa_call(p, user_id, provider, provider_user_id, access_token) ==
    /\ req[p].pc = "idle"
    /\ get_user_by_id(user_id) # None
    /\ req' = [req EXCEPT ![p] =
                  OAuthRequest("coa_select", "create_oauth_account",
                               [provider |-> provider, provider_user_id |-> provider_user_id,
                                email |-> get_user_by_id(user_id).email],
                               user_id, access_token)]
    /\ UNCHANGED <<users, oauth_accounts, nextId, calls, last>>
    /\ UNCHANGED oauthUnchanged

\* create_oauth_account 181-186: does the pair exist?
coa_select(p) ==
    LET oauth_account == get_oauth_account(req[p].info.provider, req[p].info.provider_user_id) IN
    /\ req[p].pc = "coa_select"
    /\ req' = [req EXCEPT ![p].pc = "coa_write",
                          ![p].pre_row = LinkId(req[p].info.provider, req[p].info.provider_user_id),
                          ![p].found = IF oauth_account = None THEN 0 ELSE oauth_account.id]
    /\ UNCHANGED <<users, oauth_accounts, nextId, calls, last>>
    /\ UNCHANGED oauthUnchanged

\* The unique index ix_oauth_accounts_provider_user (models.py 284-286)
\* refuses a second row for a pair.
UniquePairUnchecked(provider, provider_user_id) == TRUE

UniquePairFree(provider, provider_user_id) ==
    \A i \in 1..Len(oauth_accounts) :
        ~(oauth_accounts[i].provider = provider
          /\ oauth_accounts[i].provider_user_id = provider_user_id)

\* What the caller does once create_oauth_account has returned or raised:
\* oauth_sync answers 200 with the owner (662-671) or 500 (674-680).
AfterLink(p, ok, row_id, added) ==
    LET r == [req[p] EXCEPT !.row_id = row_id, !.added_link = added] IN
    /\ last' = OAuthResponse(r, IF ok THEN "200" ELSE "500", IF ok THEN "" ELSE "IntegrityError")
    /\ req' = [req EXCEPT ![p] = Idle]
    /\ UNCHANGED calls

\* create_oauth_account 188-207: the found row gets the supplied tokens, or
\* a new row is inserted; commit.
coa_write(p) ==
    /\ req[p].pc = "coa_write"
    /\ IF req[p].found # 0
       THEN /\ oauth_accounts' = [i \in 1..Len(oauth_accounts) |->
                    IF oauth_accounts[i].id = req[p].found
                    THEN [oauth_accounts[i] EXCEPT !.access_token = req[p].access_token]
                    ELSE oauth_accounts[i]]
            /\ UNCHANGED nextId
            /\ AfterLink(p, TRUE, req[p].found, FALSE)
       ELSE IF UniquePairFree(req[p].info.provider, req[p].info.provider_user_id)
       THEN /\ oauth_accounts' = Append(oauth_accounts,
                    [id |-> nextId.oauth, user_id |-> req[p].user_id,
                     provider |-> req[p].info.provider,
                     provider_user_id |-> req[p].info.provider_user_id,
                     access_token |-> req[p].access_token])
            /\ nextId' = [nextId EXCEPT !.oauth = @ + 1]
            /\ AfterLink(p, TRUE, nextId.oauth, TRUE)
       ELSE /\ UNCHANGED <<oauth_accounts, nextId>>
            /\ AfterLink(p, FALSE, 0, FALSE)
    /\ UNCHANGED users
    /\ UNCHANGED oauthUnchanged

InitOAuth == Init

NextOAuth ==
    \/ \E p \in Procs, info \in OAuthUserInfos : os_lookup(p, info)
    \/ \E p \in Procs : os_email(p)
    \/ \E p \in Procs : os_create_user(p)
    \/ \E p \in Procs : os_verified(p)
    \/ \E p \in Procs, pr \in Providers, pid \in ProviderUserIds, t \in AccessTokens :
          coa_call(p, DirectLinkOwner, pr, pid, t)
    \/ \E p \in Procs : coa_select(p)
    \/ \E p \in Procs : coa_write(p)

SpecOAuth == InitOAuth /\ [][NextOAuth]_vars

LinksOf(user_id) == {a \in Range(oauth_accounts) : a.user_id = user_id}

\* C15: in every committed state an owner without password_hash has at
\* least one external-identity link.
C15_PasswordlessOwnerHasLink ==
    \A u \in Range(users) : u.password_hash = None => LinksOf(u.id) # {}

C17_OneLinkPerPair ==
    /\ \A i, j \in 1..Len(oauth_accounts) :
           (oauth_accounts[i].provider = oauth_accounts[j].provider
            /\ oauth_accounts[i].provider_user_id = oauth_accounts[j].provider_user_id) => i = j
    /\ (last.adapter = "rest" /\ last.op \in {"oauth_sync", "create_oauth_account"}
            /\ last.pre_row # 0) =>
           /\ last.status = "200"
           /\ last.row_id = last.pre_row
           /\ ~last.added_link
           /\ LinkId(last.info.provider, last.info.provider_user_id) = last.pre_row
           /\ \A a \in RowsOfPair(last.info.provider, last.info.provider_user_id) :
                  a.access_token = last.access_token

\* C17 witness: a pair linked with token t1 was linked again with token t2
\* and the one row now holds t2.
C17_Witness ==
    /\ last.adapter = "rest" /\ last.op = "create_oauth_account"
    /\ last.pre_row # 0 /\ last.access_token = "t2"
    /\ Len(oauth_accounts) = 1
    /\ oauth_accounts[1].access_token = "t2"

----------------------------------------------------------------------------
\* C18: every forgot-password request is answered 200 with the same message,
\* whether the email belongs to an owner or not and whether or not the mail
\* could be sent.
C18_ForgotPasswordUniform ==
    \A c, d \in {e \in calls : e.fn = "forgot_password"} :
        /\ c.status = "200"
        /\ c.status = d.status /\ c.detail = d.detail

\* C18 witness: requests for an unknown email, for a known email, and for a
\* known email whose mail failed have all been answered, and a token was
\* stored only for the known email.
C18_Witness ==
    /\ \E c \in calls : c.fn = "forgot_password" /\ ~c.known
    /\ \E c \in calls : c.fn = "forgot_password" /\ c.known /\ ~c.mail_failed
    /\ \E c \in calls : c.fn = "forgot_password" /\ c.known /\ c.mail_failed
    /\ Len(password_reset_tokens) = 2

----------------------------------------------------------------------------
(* The identity resolver on its own (middleware.py 24-74), while owners      *)
(* sign up.                                                                  *)

AuthCredentials ==
    { NoCred, TokenFor(1), TokenFor(2),
      Bearer("garbage", "none", FALSE, 1),      \* not a JWT at all
      Bearer("jwt", "bad", FALSE, 1),           \* signed with another key
      Bearer("jwt", "ok", TRUE, 1),             \* expired
      TokenFor(NoSub), TokenFor(BadSub) }

\* A request whose dependency get_current_user runs; the route itself does
\* nothing else here.
resolve(cred) ==
    LET auth == get_current_user(cred) IN
    /\ last' = [adapter |-> "rest", op |-> "get_current_user", cred |-> cred,
                status |-> auth.status, detail |-> auth.detail, user_id |-> auth.user_id,
                existed |-> \E u \in Range(users) : u.id = cred.sub]
    /\ UNCHANGED <<users, threads, participants, messages, attachments,
                   password_reset_tokens, email_verification_tokens, oauth_accounts,
                   now, req, pager, nextId, calls>>

InitAuth == InitSignup

NextAuth ==
    \/ \E p \in Procs, e \in Emails, pw \in Passwords : signup_check(p, e, pw)
    \/ \E p \in Procs : signup_create_user(p)
    \/ \E p \in Procs : signup_finish(p)
    \/ \E c \in AuthCredentials : resolve(c)

SpecAuth == InitAuth /\ [][NextAuth]_vars

Resolved == last.adapter = "rest" /\ last.op = "get_current_user" /\ last.cred.scheme = "bearer"

\* C19: the resolver returns an owner exactly for a credential that is
\* well-formed, correctly signed, unexpired and names an existing owner, and
\* then that owner; every other bearer credential fails with 401, never
\* 404; and a step of the resolver changes no table.
C19_ResolverUnauthenticated ==
    /\ [](Resolved =>
            IF /\ last.cred.form = "jwt" /\ last.cred.sig = "ok" /\ ~last.cred.expired
               /\ last.existed
            THEN last.status = "200" /\ last.user_id = last.cred.sub
            ELSE last.status = "401" /\ last.user_id = 0)
    /\ [][(last' # last /\ last'.op = "get_current_user") => UNCHANGED dbVars]_vars

\* C19 witness: with another owner already signed up, a well-formed, valid
\* credential naming an owner id that has no row was answered 401.
C19_Witness ==
    /\ Resolved
    /\ last.cred = TokenFor(2) /\ ~last.existed
    /\ \E u \in Range(users) : u.id = 1
    /\ last.status = "401" /\ last.detail = "User not found"

----------------------------------------------------------------------------
(* Token verification at the repository (repositories.py 234-328): tokens    *)
(* are stored with the expiry the caller passes, time advances, and a token  *)
(* string is looked up.                                                      *)

\* verify_email_token: the row with that token string whose expiry is still
\* ahead, else None.
verify_email_token_any_age(token) ==
    LET rows == SelectSeq(email_verification_tokens, LAMBDA r : r.token = token)
    IN IF rows = << >> THEN None ELSE rows[1]

verify_email_token(token) ==
    LET rows == SelectSeq(email_verification_tokens,
                          LAMBDA r : r.token = token /\ r.expires_at > now)
    IN IF rows = << >> THEN None ELSE rows[1]

TokenStrings == {1, 2}
NeverIssued == 3
Expiries == 0..(MaxClock + 1)
\* every token here belongs to the first owner
TokenOwners == {InitUsers[1].id}

verifyUnchanged == <<users, threads, participants, messages, attachments,
                     oauth_accounts, req, pager, nextId, calls>>

\* create_email_verification_token; the token column is unique, so a second
\* row with the same string is refused and nothing is stored.
create_email_verification_token(user_id, token, expires_at) ==
    /\ \A r \in Range(email_verification_tokens) : r.token # token
    /\ email_verification_tokens' = Append(email_verification_tokens,
           [user_id |-> user_id, token |-> token, expires_at |-> expires_at])
    /\ UNCHANGED <<password_reset_tokens, now, last>>
    /\ UNCHANGED verifyUnchanged

\* create_password_reset_token, likewise
create_password_reset_token(user_id, token, expires_at) ==
    /\ \A r \in Range(password_reset_tokens) : r.token # token
    /\ password_reset_tokens' = Append(password_reset_tokens,
           [user_id |-> user_id, token |-> token, expires_at |-> expires_at])
    /\ UNCHANGED <<email_verification_tokens, now, last>>
    /\ UNCHANGED verifyUnchanged

\* A caller of verify_email_token; what it got back is kept with the rows
\* that carried the string and the time of the call.
call_verify_email_token(token) ==
    /\ last' = [adapter |-> "repositories", op |-> "verify_email_token", token |-> token,
                result |-> verify_email_token(token), at |-> now,
                stored |-> {r \in Range(email_verification_tokens) : r.token = token}]
    /\ UNCHANGED <<password_reset_tokens, email_verification_tokens, now>>
    /\ UNCHANGED verifyUnchanged

\* A caller of verify_password_reset_token
call_verify_password_reset_token(token) ==
    /\ last' = [adapter |-> "repositories", op |-> "verify_password_reset_token",
                token |-> token,
                result |-> verify_password_reset_token(token), at |-> now,
                stored |-> {r \in Range(password_reset_tokens) : r.token = token}]
    /\ UNCHANGED <<password_reset_tokens, email_verification_tokens, now>>
    /\ UNCHANGED verifyUnchanged

InitVerify == Init

NextVerify ==
    \/ \E u \in TokenOwners, t \in TokenStrings, e \in Expiries : create_email_verification_token(u, t, e)
    \/ \E u \in TokenOwners, t \in TokenStrings, e \in Expiries : create_password_reset_token(u, t, e)
    \/ \E t \in TokenStrings \cup {NeverIssued} : call_verify_email_token(t)
    \/ \E t \in TokenStrings \cup {NeverIssued} : call_verify_password_reset_token(t)
    \/ Tick

SpecVerify == InitVerify /\ [][NextVerify]_vars

Verified ==
    /\ last.adapter = "repositories"
    /\ last.op \in {"verify_email_token", "verify_password_reset_token"}

\* C20: verification returns the stored record exactly when a record with
\* that token string exists and the time of the call is before its expiry;
\* for an expired token and for one never issued it returns None alike; and
\* a verification changes no table.
C20_VerifyReturnsUnexpiredOnly ==
    /\ [](Verified =>
            IF \E r \in last.stored : last.at < r.expires_at
            THEN last.result \in last.stored /\ last.at < last.result.expires_at
            ELSE last.result = None)
    /\ [][(last' # last /\ last'.adapter = "repositories") => UNCHANGED dbVars]_vars

\* C20 witness: a stored email token was looked up at the very time of its
\* expiry and the caller got None, as for a string never issued.
C20_Witness ==
    /\ Verified /\ last.op = "verify_email_token"
    /\ \E r \in last.stored : r.expires_at = last.at /\ last.at > 0
    /\ last.result = None

----------------------------------------------------------------------------
(* Creating a thread and what the caller gets back (schemas.py 14-101,       *)
(* repositories.py 347-387, api/rest.py 47-65).                              *)

\* The JSON bodies sent to POST /threads: status and metadata may be left out.
CreateBodies ==
    [has_status : BOOLEAN, status : {"paused"},
     has_metadata : BOOLEAN, metadata : {MetaAB},
     participants : {<< >>, <<"agent">>, <<"user", "agent">>}]

\* schemas.py ThreadCreate: status defaults to open, metadata to {} and
\* participants to the empty list.
ThreadCreate(body) ==
    [status |-> IF body.has_status THEN body.status ELSE "open",
     metadata |-> IF body.has_metadata THEN body.metadata ELSE MetaEmpty,
     participants |-> body.participants]

CreateOwner == 1

\* create_thread run to completion, then the refresh of participants and
\* messages (383-386): Thread.participants has no order_by (models.py
\* 372-375), so the rows come back in whatever order the database yields.
create_thread_refreshed(body) ==
    LET payload == ThreadCreate(body)
        id == nextId.thread
    IN /\ nextId.thread <= MaxThreads
       /\ CommitThread(payload, CreateOwner)
       /\ \E ps \in Arrangements(Range(ParticipantRows(id, payload))),
             ms \in MessagesByCreatedAt(MessagesOf(id)) :
             last' = [adapter |-> "rest", op |-> "create_thread", status |-> "201",
                      caller |-> CreateOwner, body |-> body,
                      thread |-> ThreadRow(id, payload, CreateOwner),
                      participants |-> [i \in 1..Len(ps) |-> ps[i].role],
                      messages |-> Ids(ms)]
       /\ UNCHANGED <<users, messages, attachments, password_reset_tokens,
                      email_verification_tokens, oauth_accounts, now, req, pager, calls>>

InitCreate == Init

NextCreate ==
    \/ \E body \in CreateBodies : create_thread_refreshed(body)
    \/ Tick

SpecCreate == InitCreate /\ [][NextCreate]_vars

\* C22: a successful create_thread with N initial participants yields a
\* thread owned by the caller with exactly those N participants in the
\* order supplied (none when none are supplied), no messages, and, when not
\* supplied, lifecycle state open and an empty attribute map.
C22_CreateThreadShape ==
    (last.adapter = "rest" /\ last.op = "create_thread" /\ last.status = "201") =>
        /\ last.thread.user_id = last.caller
        /\ last.participants = last.body.participants
        /\ last.messages = << >>
        /\ (~last.body.has_status => last.thread.status = "open")
        /\ (~last.body.has_metadata => last.thread.custom_metadata = MetaEmpty)

----------------------------------------------------------------------------
(* The limit each adapter hands to list_threads (api/rest.py 68-94,          *)
(* api/grpc.py 182-197, repositories.py 434).                                *)

MaxLimit == 100        \* Query(le=100)
DefaultLimit == 20     \* the default of both adapters

\* limit values a request may carry; 0 is an unset proto3 field
WireLimits == {-1, 0, 1, 2, MaxLimit, MaxLimit + 1}
\* the query string of GET /threads may also leave limit out
RestLimits == [present : {TRUE}, value : WireLimits] \cup {[present |-> FALSE, value |-> 0]}

LimitOwner == 1

\* What a list request did: the limit on the wire, whether list_threads was
\* called, the limit argument of that call and the length of the page.
ListCall(adapter, wire, called, limit_arg, status, page_len, matching) ==
    [adapter |-> adapter, op |-> "list_threads_call", wire |-> wire, called |-> called,
     limit_arg |-> limit_arg, status |-> status, page_len |-> page_len,
     matching |-> matching]

\* Query(ge=1, le=100) = 20: a value outside 1..100 is refused with 422
\* before the route body runs; otherwise list_threads gets the value as is.
limit_query(q) ==
    IF ~q.present THEN DefaultLimit
    ELSE IF q.value >= 1 /\ q.value <= MaxLimit THEN q.value ELSE 0

rest_list_threads(q) ==
    LET limit == limit_query(q) IN
    /\ IF q.present /\ limit = 0
       THEN last' = ListCall("rest", q.value, FALSE, 0, "422", 0, 0)
       ELSE \E order \in Orderings(Matching(LimitOwner, NoFilter)) :
               last' = ListCall("rest", q.value, TRUE, limit, "200",
                                Len(Page(order, limit, 0)),
                                count_threads(LimitOwner, NoFilter))
    /\ UNCHANGED <<threads, participants, messages, attachments, nextId>>
    /\ UNCHANGED restUnchanged

\* ListThreads: limit=request.limit or 20, and the call does not bind
\* (no user_id), so it raises TypeError.
grpc_list_threads(wire) ==
    LET limit == IF wire = 0 THEN DefaultLimit ELSE wire IN
    /\ ~Binds("list_threads", {"session", "limit", "offset", "participant_id", "status",
                               "created_after", "created_before"})
    /\ last' = ListCall("grpc", wire, TRUE, limit, "UNKNOWN", 0, 0)
    /\ UNCHANGED <<threads, participants, messages, attachments, nextId>>
    /\ UNCHANGED restUnchanged

InitLimit == Init

NextLimit ==
    \/ \E pl \in ThreadPayloads : create_thread_endpoint(TokenFor(LimitOwner), pl)
    \/ \E q \in RestLimits : rest_list_threads(q)
    \/ \E w \in WireLimits : grpc_list_threads(w)
    \/ Tick

SpecLimit == InitLimit /\ [][NextLimit]_vars

\* C23: every call an adapter makes to list_threads passes a limit of at
\* least 1 and at most 100, whatever the request carried, and list_threads
\* applies exactly the limit it is given.
C23_LimitClamped ==
    (last.op = "list_threads_call" /\ last.called) =>
        /\ last.limit_arg >= 1 /\ last.limit_arg <= MaxLimit
        /\ (last.status = "200" => last.page_len = Min(last.limit_arg, last.matching))

----------------------------------------------------------------------------
(* Email verification (api/auth.py 195-220, repositories.py 111-130) with    *)
(* the tokens that signup stores.                                            *)

\* verify_user_email: the users table with email_verified set for that user.
verify_user_email(user_id) ==
    [i \in 1..Len(users) |->
        IF users[i].id = user_id THEN [users[i] EXCEPT !.email_verified = TRUE]
        ELSE users[i]]

EmailTokens == 1..MaxSignups
InvalidVerificationToken == [status |-> "400", detail |-> "Invalid or expired verification token"]
ConsumedEmailTokens == {c.id : c \in {d \in calls : d.fn = "verify_email"}}

\* POST /auth/verify-email: the token is looked up; when it is found the
\* owner is marked verified and the answer is 200.  The token row is left
\* where it is.
verify_email(token) ==
    LET verification_token == verify_email_token(token) IN
    /\ IF verification_token = None
       THEN /\ last' = [adapter |-> "rest", op |-> "verify_email", token |-> token,
                        after_consumed |-> token \in ConsumedEmailTokens,
                        status |-> InvalidVerificationToken.status,
                        detail |-> InvalidVerificationToken.detail]
            /\ UNCHANGED <<users, calls>>
       ELSE /\ users' = verify_user_email(verification_token.user_id)
            /\ last' = [adapter |-> "rest", op |-> "verify_email", token |-> token,
                        after_consumed |-> token \in ConsumedEmailTokens,
                        status |-> "200", detail |-> "Email verified successfully"]
            /\ calls' = calls \cup {[fn |-> "verify_email", id |-> token]}
    /\ UNCHANGED <<threads, participants, messages, attachments, password_reset_tokens,
                   email_verification_tokens, oauth_accounts, now, req, pager, nextId>>

InitEmailVerify == InitSignup

NextEmailVerify ==
    \/ \E p \in Procs, e \in Emails, pw \in Passwords : signup_check(p, e, pw)
    \/ \E p \in Procs : signup_create_user(p)
    \/ \E p \in Procs : signup_finish(p)
    \/ \E t \in EmailTokens : verify_email(t)

SpecEmailVerify == InitEmailVerify /\ [][NextEmailVerify]_vars

\* C24: a short-lived token is destroyed on use: once a successful
\* verify-email call has consumed an email-verification token, no later
\* lookup returns it and a second call with the same token is rejected.
\* (The password-reset token is the subject of C7.)
C24_TokenDestroyedOnUse ==
    /\ \A t \in ConsumedEmailTokens : verify_email_token(t) = None
    /\ (last.adapter = "rest" /\ last.op = "verify_email" /\ last.after_consumed)
           => last.status = "400"

----------------------------------------------------------------------------
(* No append is applied twice, checked under SpecTx.                         *)

Returned == {c \in calls : c.fn = "append_message" /\ c.outcome = "returned"}
Raised == {c \in calls : c.fn = "append_message" /\ c.outcome = "raised"}
RaisedAfterCommit == {c \in Raised : c.failed_at = "am_refresh"}
NoAppendInFlight == \A p \in Procs : ~InFlight(p, "append_message")

\* C25 as stated: each append-message request that succeeds adds exactly
\* one message row with exactly its attachments, each request that fails
\* adds none, so after k successful appends and any number of failed ones
\* there are exactly k messages.
C25_AppendAppliedOnce ==
    /\ \A c \in Returned : AllRowsVisible("append_message", c.id, c.n)
    /\ \A c \in Raised : NoRowsVisible("append_message", c.id)
    /\ NoAppendInFlight => Len(messages) = Cardinality(Returned)

\* C25 amended: a request adds its message row at most once: exactly one
\* row with exactly its attachments when it succeeds or fails in the
\* refresh after its commit, none when it fails earlier; the number of
\* messages is the number of requests that reached their commit.
C25_AppendAppliedAtMostOnce ==
    /\ \A c \in Returned \cup RaisedAfterCommit : AllRowsVisible("append_message", c.id, c.n)
    /\ \A c \in Raised \ RaisedAfterCommit : NoRowsVisible("append_message", c.id)
    /\ NoAppendInFlight =>
           Len(messages) = Cardinality(Returned) + Cardinality(RaisedAfterCommit)

\* C25 witness: one append succeeded, one failed in the refresh after its
\* commit and one request for a missing thread was refused; two messages
\* are stored.
C25_Witness ==
    /\ NoAppendInFlight
    /\ Cardinality(Returned) = 1
    /\ Cardinality(RaisedAfterCommit) = 1
    /\ \E c \in Raised : c.failed_at = "probe"
    /\ Len(messages) = 2

----------------------------------------------------------------------------
(* The database session of a request (db.py 32-36, api/grpc.py 143-201):     *)
(* both adapters open it with "async with SessionLocal() as session".        *)

SessionAdapters == {"rest", "grpc"}
SessionOps == {"create_thread", "list_threads", "get_thread", "append_message"}

\* How the body inside the session's context manager can end.
Exits(op) ==
    {"return", "exception"} \cup
        (IF op \in {"get_thread", "append_message"} THEN {"NoResultFound"} ELSE {})

\* AsyncSession.__aexit__: the session is closed however the block is left.
aexit_on_return_only(exit_by) == IF exit_by = "return" THEN "closed" ELSE "open"

aexit(exit_by) == "closed"

sessionUnchanged == <<users, threads, participants, messages, attachments,
                      password_reset_tokens, email_verification_tokens, oauth_accounts,
                      now, last, pager, nextId, calls>>

\* The request enters the context manager: one session is acquired.
session_enter(p, adapter, op) ==
    /\ Free(p)
    /\ req' = [req EXCEPT ![p] = [pc |-> "in_session", adapter |-> adapter, op |-> op,
                                  session |-> "open", opened |-> 1, exit_by |-> ""]]
    /\ UNCHANGED sessionUnchanged

\* The repository call inside the block returns or raises.
session_body(p, exit_by) ==
    /\ req[p].pc = "in_session"
    /\ exit_by \in Exits(req[p].op)
    /\ req' = [req EXCEPT ![p].pc = "leaving", ![p].exit_by = exit_by]
    /\ UNCHANGED sessionUnchanged

\* The block is left; afterwards the request is answered.
session_exit(p) ==
    /\ req[p].pc = "leaving"
    /\ req' = [req EXCEPT ![p].pc = "done", ![p].session = aexit(req[p].exit_by)]
    /\ UNCHANGED sessionUnchanged

InitSession == Init

NextSession ==
    \/ \E p \in Procs, a \in SessionAdapters, op \in SessionOps : session_enter(p, a, op)
    \/ \E p \in Procs, e \in {"return", "exception", "NoResultFound"} : session_body(p, e)
    \/ \E p \in Procs : session_exit(p)

SpecSession == InitSession /\ [][NextSession]_vars

SessionsHeld == {p \in Procs : req[p].pc # "idle" /\ req[p].session = "open"}

\* C27: every request, in both adapters, holds one session while it runs
\* and has released it on every exit path once it is finished, so whenever
\* no request is in flight no session is held.
C27_SessionReleased ==
    /\ \A p \in Procs :
          /\ req[p].pc \in {"in_session", "leaving"} =>
                 (req[p].session = "open" /\ req[p].opened = 1)
          /\ req[p].pc = "done" => req[p].session = "closed"
    /\ (\A p \in Procs : Free(p)) => SessionsHeld = {}

\* C27 witness: no request is in flight, one has ended with an unexpected
\* exception in the REST adapter and another with NoResultFound in the gRPC
\* adapter, and no session is held.
C27_Witness ==
    /\ \A p \in Procs : Free(p)
    /\ \E p \in Procs : req[p].pc = "done" /\ req[p].adapter = "rest" /\ req[p].exit_by = "exception"
    /\ \E p \in Procs : req[p].pc = "done" /\ req[p].adapter = "grpc" /\ req[p].exit_by = "NoResultFound"
    /\ SessionsHeld = {}

----------------------------------------------------------------------------
(* The ownership backfill (migrations/versions/                              *)
(* 20251121_0001_fix_null_user_id_threads.py).  Before it runs, threads      *)
(* written under the earlier schema have no owner (user_id NULL, here 0).    *)

NullOwner == 0
Migrated == [fn |-> "upgrade"] \in calls

LegacyPayload == [status |-> "open", metadata |-> MetaEmpty, participants |-> << >>]

migrationUnchanged == <<participants, messages, attachments, password_reset_tokens,
                        email_verification_tokens, oauth_accounts, req, pager>>

\* An owner row is inserted; created_at is now().
mg_add_user(email) ==
    /\ get_user_by_email(email) = None
    /\ users' = Append(users, [id |-> nextId.user, email |-> email,
                               password_hash |-> hash_password("pw1"),
                               email_verified |-> FALSE, created_at |-> now])
    /\ nextId' = [nextId EXCEPT !.user = @ + 1]
    /\ UNCHANGED <<threads, now, last, calls>>
    /\ UNCHANGED migrationUnchanged

\* A thread row is inserted: without an owner while the column is still
\* nullable, or with an existing owner.
mg_add_thread(user_id) ==
    /\ nextId.thread <= MaxThreads
    /\ IF user_id = NullOwner THEN ~Migrated ELSE get_user_by_id(user_id) # None
    /\ threads' = Append(threads, ThreadRow(nextId.thread, LegacyPayload, user_id))
    /\ nextId' = [nextId EXCEPT !.thread = @ + 1]
    /\ UNCHANGED <<users, now, last, calls>>
    /\ UNCHANGED migrationUnchanged

\* SELECT id FROM users ORDER BY created_at ASC LIMIT 1: a row with the
\* least created_at; among rows with equal created_at any one.
FirstUsers == {u \in Range(users) : \A v \in Range(users) : u.created_at <= v.created_at}

\* UPDATE threads SET user_id = :user_id WHERE user_id IS NULL
AssignNone(user_id) == threads

AssignNullOwners(user_id) ==
    [i \in 1..Len(threads) |->
        IF threads[i].user_id = NullOwner THEN [threads[i] EXCEPT !.user_id = user_id]
        ELSE threads[i]]

\* DELETE FROM threads WHERE user_id IS NULL
DeleteNullOwners == SelectSeq(threads, LAMBDA t : t.user_id # NullOwner)

\* upgrade(): nothing when no thread lacks an owner; else the ownerless
\* threads go to the first user, or are deleted when there is no user.
upgrade ==
    /\ IF \A t \in Range(threads) : t.user_id # NullOwner
       THEN threads' = threads
       ELSE IF users # << >>
            THEN \E first \in FirstUsers : threads' = AssignNullOwners(first.id)
            ELSE threads' = DeleteNullOwners
    /\ last' = [adapter |-> "alembic", op |-> "upgrade", status |-> "done",
                before |-> threads, after |-> threads', owners |-> users]
    /\ calls' = calls \cup {[fn |-> "upgrade"]}
    /\ UNCHANGED <<users, now, nextId>>
    /\ UNCHANGED migrationUnchanged

\* downgrade(): pass
downgrade ==
    /\ Migrated
    /\ last' = [adapter |-> "alembic", op |-> "downgrade", status |-> "done",
                before |-> threads, after |-> threads, owners |-> users]
    /\ UNCHANGED <<users, threads, now, nextId, calls>>
    /\ UNCHANGED migrationUnchanged

InitMigration == InitSignup

NextMigration ==
    \/ \E e \in Emails : mg_add_user(e)
    \/ \E u \in {NullOwner, 1, 2} : mg_add_thread(u)
    \/ upgrade
    \/ downgrade
    \/ Tick

SpecMigration == InitMigration /\ [][NextMigration]_vars

OwnerlessBefore == {i \in 1..Len(last.before) : last.before[i].user_id = NullOwner}

\* C28: after upgrade no thread has a null owner; when an owner exists every
\* previously ownerless thread is assigned to one earliest-created owner
\* (the same for all) and no thread is deleted; when no owner exists every
\* ownerless thread is deleted; threads that had an owner are unchanged; and
\* downgrade changes no row.
C28_BackfillOwners ==
    /\ [](last.adapter = "alembic" /\ last.op = "upgrade" =>
            /\ \A t \in Range(last.after) : t.user_id # NullOwner
            /\ IF last.owners # << >>
               THEN /\ Len(last.after) = Len(last.before)
                    /\ \E first \in Range(last.owners) :
                          /\ \A v \in Range(last.owners) : first.created_at <= v.created_at
                          /\ \A i \in OwnerlessBefore :
                                last.after[i] = [last.before[i] EXCEPT !.user_id = first.id]
                    /\ \A i \in (1..Len(last.before)) \ OwnerlessBefore :
                          last.after[i] = last.before[i]
               ELSE last.after = SelectSeq(last.before, LAMBDA t : t.user_id # NullOwner))
    /\ [](Migrated => \A t \in Range(threads) : t.user_id # NullOwner)
    /\ [][(last' # last /\ last'.adapter = "alembic") =>
             (threads' = last'.after /\ users' = users
              /\ (last'.op = "downgrade" => UNCHANGED dbVars))]_vars

\* C28 witness: upgrade ran with two owners present, an ownerless thread
\* and an owned one; the ownerless thread now belongs to the owner created
\* first and the other thread is as it was.
C28_Witness ==
    /\ last.adapter = "alembic" /\ last.op = "upgrade"
    /\ Len(last.owners) = 2 /\ last.owners[1].created_at < last.owners[2].created_at
    /\ Len(last.before) = 2
    /\ last.before[1].user_id = NullOwner /\ last.before[2].user_id = 2
    /\ last.after[1].user_id = 1 /\ last.after[2].user_id = 2

----------------------------------------------------------------------------
(* Two resets with one token, checked under SpecReset.                       *)

\* C29: when two reset-password requests carry the same valid token, at
\* most one of them changes the owner's password and the other is rejected
\* as an invalid token, in every interleaving of their verify, update and
\* delete steps.
C29_OneResetPerToken ==
    \A p, q \in Procs :
        ( /\ p # q
          /\ req[p].pc # "idle" /\ req[p].op = "reset_password"
          /\ req[q].pc # "idle" /\ req[q].op = "reset_password"
          /\ req[p].token = req[q].token
          /\ req[p].changed )
        => /\ ~req[q].changed
           /\ req[q].pc = "done" => req[q].status = InvalidResetToken.status

----------------------------------------------------------------------------
(* The participant a message is attributed to (repositories.py 477-512,      *)
(* models.py 423-430).                                                       *)

AttributionOwner == 1
AttributedThreadPayloads == {pl \in ThreadPayloads : pl.participants # << >>}

\* participant ids a MessageCreate may carry: none, the first participant of
\* each thread, and an id no participant has
AttributedPayloads ==
    { [participant_id |-> pid, kind |-> "text", attachments |-> << >>] :
        pid \in {0} \cup {ChildId(t, 1) : t \in 1..(MaxThreads + 1)} }

\* ForeignKey("participants.id"): the id must name a participant row
participant_exists(participant_id) ==
    \E i \in 1..Len(participants) : participants[i].id = participant_id

\* POST /threads/{thread_id}/messages with a participant id: the thread must
\* be the caller's; the message row carries payload.participant_id as given,
\* and the insert is refused only when no participant has that id.
append_attributed(thread_id, payload) ==
    /\ IF get_thread(thread_id, AttributionOwner) = NoResultFound
       THEN /\ last' = Response("rest", "append_message", TokenFor(AttributionOwner), thread_id,
                                "404", "Thread not found", {}, {}, <<"get_thread">>,
                                AttributionOwner)
            /\ UNCHANGED <<messages, attachments, nextId>>
       ELSE IF payload.participant_id # 0 /\ ~participant_exists(payload.participant_id)
       THEN /\ last' = Response("rest", "append_message", TokenFor(AttributionOwner), thread_id,
                                global_exception_handler(IntegrityError).status,
                                global_exception_handler(IntegrityError).detail, {}, {},
                                <<"get_thread", "append_message">>, AttributionOwner)
            /\ UNCHANGED <<messages, attachments, nextId>>
       ELSE /\ nextId.message <= MaxMessages
            /\ CommitMessage(thread_id, payload)
            /\ last' = Response("rest", "append_message", TokenFor(AttributionOwner), thread_id,
                                "201", "", {thread_id}, {thread_id},
                                <<"get_thread", "append_message">>, AttributionOwner)
    /\ UNCHANGED <<threads, participants>>
    /\ UNCHANGED restUnchanged

InitAttribution == Init

NextAttribution ==
    \/ \E pl \in AttributedThreadPayloads : create_thread_endpoint(TokenFor(AttributionOwner), pl)
    \/ \E t \in RequestedThreadIds, pl \in AttributedPayloads : append_attributed(t, pl)
    \/ Tick

SpecAttribution == InitAttribution /\ [][NextAttribution]_vars

\* C30: every stored message whose participant_id is not null references a
\* participant that belongs to the same thread as the message.
C30_ParticipantOfSameThread ==
    \A m \in Range(messages) :
        m.participant_id # 0 =>
            \E pt \in Range(participants) :
                pt.id = m.participant_id /\ pt.thread_id = m.thread_id

====
